---------------------------- MODULE Spec2Model ----------------------------
(***************************************************************************)
(* A model of grust-gen's type mapper (grust/mapping.py, RawMapper), of    *)
(* the writer that drives it (grust/generators/sys_crate.py), of the run   *)
(* around them and its output (grust/genmain.py, grust/output.py) and of   *)
(* the namespace under construction (grust/giscanner/transformer.py).      *)
(*                                                                         *)
(* Python strings are tuples of one-character strings, so that the regular *)
(* expressions, the case conversion and the sorting of the source are      *)
(* computed and not assumed.  Python's None is the value None below.       *)
(***************************************************************************)
EXTENDS Integers, Sequences, FiniteSets, TLC

VARIABLES
    nodes,          \* the home namespace: its declarations, in table order
    phase,          \* where generator_main is: "walk", "render", "done", "failed", "aborted"
    walkPos,        \* position in nodes of the next declaration Namespace.walk visits
    crate,          \* RawMapper.crate: the Crate of the home namespace
    extern_crates,  \* RawMapper._extern_crates: namespace name -> Crate, in insertion order
    crate_libc,     \* RawMapper._crate_libc: NoCrate or the libc Crate
    created,        \* number of Crate objects this mapper has constructed (object identities)
    error_count,    \* MessageLogger's error count
    warning_count,  \* MessageLogger's warning count
    logged,         \* the declarations (positions in nodes) errors were logged against, in order
    status,         \* per declaration: "unseen", "resolved", "error" (logged), "raised"
    extracted,      \* the declarations a Module has extracted (Module.type_defs, .functions)
    map_started,    \* whether a Pass 2 (map_*) call has been made
    resolved_ns,    \* names of the foreign namespaces named references have resolved into
    libc_hits,      \* how many fundamental types with a libc ctype have been resolved
    last,           \* the last call into the mapper: what was called, on what, what came back
    exit_code,      \* the process's exit status: << >> while it runs, << n >> after
    \* generator_main and its output (grust/genmain.py, grust/output.py)
    pc,             \* where generator_main is
    sys_mode,       \* opts.sys_mode
    opts_output,    \* the -o argument: None, "-" or a file name
    python_major,   \* sys.version_info.major
    target_file,    \* the file at the output's target path: NoFile or its content
    tempfile,       \* FileOutput._tempfile and the file it names
    stdout,         \* what has been written to sys.stdout
    stderr,         \* what has been written to sys.stderr
    renames,        \* how many times os.rename has been called
    raised,         \* the exception leaving the body of the with statement, "" for none
    cause,          \* why the process ended
    \* a call of one of the module-level functions of grust/mapping.py
    call,           \* the function and its arguments
    \* Transformer._append_new_node (grust/giscanner/transformer.py)
    names,          \* Namespace.names of the namespace under construction, in insertion order
    appended,       \* the latest node given to _append_new_node and what became of it
    fatal           \* the positions message.fatal reported, << >> while none

mapperVars == << nodes, phase, walkPos, crate, extern_crates, crate_libc, created, logged,
                 status, extracted, map_started, resolved_ns, libc_hits, last >>
logVars == << error_count, warning_count, exit_code >>
outputVars == << pc, sys_mode, opts_output, python_major, target_file, tempfile, stdout, stderr,
                 renames, raised, cause >>
callVars == << call >>
appendVars == << names, appended, fatal >>

vars == << mapperVars, logVars, outputVars, callVars, appendVars >>

-----------------------------------------------------------------------------
(* Strings *)

None == << "None" >>

\* value bound to a name for the rest of a computation: name = value; F(name)
With(value, F(_)) == F(value)

\* ASCII order of the characters the model's strings use (Python compares
\* strings by code point).
CharOrder ==
    <<" ","*","-",".","0","1","2","3","4","5","6","7","8","9",":","A","B","C","D","E","F","G","H","I","J","K","L","M","N","O","P","Q","R","S","T","U","V","W","X","Y","Z","_","a","b","c","d","e","f","g","h","i","j","k","l","m","n","o","p","q","r","s","t","u","v","w","x","y","z">>

UpperChars == <<"A","B","C","D","E","F","G","H","I","J","K","L","M","N","O","P","Q","R","S","T","U","V","W","X","Y","Z">>
LowerChars == <<"a","b","c","d","e","f","g","h","i","j","k","l","m","n","o","p","q","r","s","t","u","v","w","x","y","z">>
DigitChars == <<"0","1","2","3","4","5","6","7","8","9">>

Range(s) == { s[i] : i \in DOMAIN s }

Ord(c) == CHOOSE i \in DOMAIN CharOrder : CharOrder[i] = c

IsUpper(c) == c \in Range(UpperChars)
IsAlpha(c) == c \in Range(UpperChars) \cup Range(LowerChars)
IsDigit(c) == c \in Range(DigitChars)
\* \w of Python's re for ASCII text
IsWordChar(c) == IsAlpha(c) \/ IsDigit(c) \/ c = "_"

LowerChar(c) ==
    IF IsUpper(c)
    THEN LowerChars[CHOOSE i \in DOMAIN UpperChars : UpperChars[i] = c]
    ELSE c

\* str.lower()
lower(s) == [ i \in DOMAIN s |-> LowerChar(s[i]) ]

\* s < t for Python strings
StrLess(s, t) ==
    \E k \in 0 .. Len(s) :
        /\ k <= Len(t)
        /\ \A i \in 1 .. k : s[i] = t[i]
        /\ \/ k = Len(s) /\ k < Len(t)
           \/ k < Len(s) /\ k < Len(t) /\ Ord(s[k + 1]) < Ord(t[k + 1])

startswith(s, p) == Len(p) <= Len(s) /\ SubSeq(s, 1, Len(p)) = p
endswith(s, p) == Len(p) <= Len(s) /\ SubSeq(s, Len(s) - Len(p) + 1, Len(s)) = p

\* s without its trailing spaces / its leading spaces
RECURSIVE RStripSpaces(_)
RStripSpaces(s) ==
    IF s # << >> /\ s[Len(s)] = " " THEN RStripSpaces(SubSeq(s, 1, Len(s) - 1)) ELSE s

RECURSIVE LStripSpaces(_)
LStripSpaces(s) ==
    IF s # << >> /\ s[1] = " " THEN LStripSpaces(Tail(s)) ELSE s

DropLast(s, n) == SubSeq(s, 1, Len(s) - n)
DropFirst(s, n) == SubSeq(s, n + 1, Len(s))

HasDot(s) == "." \in Range(s)
FirstDot(s) == CHOOSE i \in DOMAIN s : s[i] = "." /\ \A j \in 1 .. i - 1 : s[j] # "."
\* name.split('.', 1) for a name that holds a '.'
SplitHead(s) == SubSeq(s, 1, FirstDot(s) - 1)
SplitRest(s) == SubSeq(s, FirstDot(s) + 1, Len(s))

-----------------------------------------------------------------------------
(* grust/mapping.py: tables and pure functions *)

ffi_basic_types ==
    { << <<"g","p","o","i","n","t","e","r">>, <<"g","p","o","i","n","t","e","r">> >>, << <<"g","c","o","n","s","t","p","o","i","n","t","e","r">>, <<"g","c","o","n","s","t","p","o","i","n","t","e","r">> >>,
      << <<"g","b","o","o","l","e","a","n">>, <<"g","b","o","o","l","e","a","n">> >>, << <<"g","c","h","a","r">>, <<"g","c","h","a","r">> >>,
      << <<"g","s","h","o","r","t">>, <<"g","s","h","o","r","t">> >>, << <<"g","u","s","h","o","r","t">>, <<"g","u","s","h","o","r","t">> >>,
      << <<"g","i","n","t">>, <<"g","i","n","t">> >>, << <<"g","u","i","n","t">>, <<"g","u","i","n","t">> >>,
      << <<"g","l","o","n","g">>, <<"g","l","o","n","g">> >>, << <<"g","u","l","o","n","g">>, <<"g","u","l","o","n","g">> >>,
      << <<"g","s","i","z","e">>, <<"g","s","i","z","e">> >>, << <<"g","s","s","i","z","e">>, <<"g","s","s","i","z","e">> >>,
      << <<"g","i","n","t","p","t","r">>, <<"g","i","n","t","p","t","r">> >>, << <<"g","u","i","n","t","p","t","r">>, <<"g","u","i","n","t","p","t","r">> >>,
      << <<"g","f","l","o","a","t">>, <<"g","f","l","o","a","t">> >>, << <<"g","d","o","u","b","l","e">>, <<"g","d","o","u","b","l","e">> >>,
      << <<"g","u","n","i","c","h","a","r">>, <<"g","u","n","i","c","h","a","r">> >>, << <<"G","T","y","p","e">>, <<"G","T","y","p","e">> >>,
      << <<"g","i","n","t","8">>, <<"i","8">> >>, << <<"g","u","i","n","t","8">>, <<"u","8">> >>,
      << <<"g","i","n","t","1","6">>, <<"i","1","6">> >>, << <<"g","u","i","n","t","1","6">>, <<"u","1","6">> >>,
      << <<"g","i","n","t","3","2">>, <<"i","3","2">> >>, << <<"g","u","i","n","t","3","2">>, <<"u","3","2">> >>,
      << <<"g","i","n","t","6","4">>, <<"i","6","4">> >>, << <<"g","u","i","n","t","6","4">>, <<"u","6","4">> >>,
      << <<"c","o","n","s","t"," ","g","c","h","a","r","*">>, <<"*","c","o","n","s","t"," ","g","c","h","a","r">> >>, << <<"c","o","n","s","t"," ","c","h","a","r","*">>, <<"*","c","o","n","s","t"," ","g","c","h","a","r">> >>,
      << <<"g","c","h","a","r","*","*">>, <<"*","m","u","t"," ","*","m","u","t"," ","g","c","h","a","r">> >>, << <<"c","h","a","r","*","*">>, <<"*","m","u","t"," ","*","m","u","t"," ","g","c","h","a","r">> >>,
      << <<"c","o","n","s","t"," ","g","c","h","a","r","*","*">>, <<"*","m","u","t"," ","*","c","o","n","s","t"," ","g","c","h","a","r">> >>,
      << <<"c","o","n","s","t"," ","c","h","a","r","*","*">>, <<"*","m","u","t"," ","*","c","o","n","s","t"," ","g","c","h","a","r">> >>,
      << <<"c","o","n","s","t"," ","g","c","h","a","r","*"," ","c","o","n","s","t","*">>, <<"*","c","o","n","s","t"," ","*","c","o","n","s","t"," ","g","c","h","a","r">> >>,
      << <<"c","o","n","s","t"," ","c","h","a","r","*"," ","c","o","n","s","t","*">>, <<"*","c","o","n","s","t"," ","*","c","o","n","s","t"," ","g","c","h","a","r">> >> }

libc_types ==
    { << <<"s","i","z","e","_","t">>, <<"s","i","z","e","_","t">> >>, << <<"s","s","i","z","e","_","t">>, <<"s","s","i","z","e","_","t">> >>,
      << <<"t","i","m","e","_","t">>, <<"t","i","m","e","_","t">> >>, << <<"o","f","f","_","t">>, <<"o","f","f","_","t">> >>,
      << <<"p","i","d","_","t">>, <<"p","i","d","_","t">> >>, << <<"u","i","d","_","t">>, <<"u","i","d","_","t">> >>,
      << <<"g","i","d","_","t">>, <<"g","i","d","_","t">> >>, << <<"d","e","v","_","t">>, <<"d","e","v","_","t">> >>,
      << <<"s","o","c","k","l","e","n","_","t">>, <<"s","o","c","k","l","e","n","_","t">> >>,
      << <<"l","o","n","g"," ","l","o","n","g">>, <<"c","_","l","o","n","g","l","o","n","g">> >>,
      << <<"u","n","s","i","g","n","e","d"," ","l","o","n","g"," ","l","o","n","g">>, <<"c","_","u","l","o","n","g","l","o","n","g">> >> }

\* key in table / table[key] for the two dicts above
InTable(key, table) == \E e \in table : e[1] = key
Lookup(key, table) == (CHOOSE e \in table : e[1] = key)[2]

rust_keywords ==
    { <<"a","s">>, <<"b","r","e","a","k">>, <<"c","r","a","t","e">>, <<"e","l","s","e">>, <<"e","n","u","m">>, <<"e","x","t","e","r","n">>, <<"f","a","l","s","e">>, <<"f","n">>, <<"f","o","r">>,
      <<"i","f">>, <<"i","m","p","l">>, <<"i","n">>, <<"l","e","t">>, <<"l","o","o","p">>, <<"m","a","t","c","h">>, <<"m","o","d">>, <<"m","o","v","e">>, <<"m","u","t">>, <<"p","u","b">>,
      <<"r","e","f">>, <<"r","e","t","u","r","n">>, <<"s","t","a","t","i","c">>, <<"s","e","l","f">>, <<"S","e","l","f">>, <<"s","t","r","u","c","t">>, <<"s","u","p","e","r">>, <<"t","r","u","e">>,
      <<"t","r","a","i","t">>, <<"t","y","p","e">>, <<"u","n","s","a","f","e">>, <<"u","s","e">>, <<"w","h","i","l","e">>, <<"c","o","n","t","i","n","u","e">>, <<"b","o","x">>, <<"c","o","n","s","t">>,
      <<"w","h","e","r","e">>, <<"v","i","r","t","u","a","l">>, <<"p","r","o","c">>, <<"a","l","i","g","n","o","f">>, <<"b","e","c","o","m","e">>, <<"o","f","f","s","e","t","o","f">>, <<"p","r","i","v">>,
      <<"p","u","r","e">>, <<"s","i","z","e","o","f">>, <<"t","y","p","e","o","f">>, <<"u","n","s","i","z","e","d">>, <<"y","i","e","l","d">>, <<"d","o">>, <<"a","b","s","t","r","a","c","t">>, <<"f","i","n","a","l">>,
      <<"o","v","e","r","r","i","d","e">>, <<"m","a","c","r","o">> }

\* _ident_pat: ^[A-Za-z_][A-Za-z_0-9]*$
ident_pat(name) ==
    /\ name # << >>
    /\ IsAlpha(name[1]) \/ name[1] = "_"
    /\ \A i \in DOMAIN name : IsWordChar(name[i])

is_ident(name) == ident_pat(name) /\ name \notin rust_keywords

\* sanitize_ident: the name, a keyword gets '_' appended; ValueError for a
\* name that is not identifier-shaped.
sanitize_ident(name) ==
    IF ~ident_pat(name) THEN [exc |-> "ValueError", val |-> None]
    ELSE IF name \in rust_keywords THEN [exc |-> "", val |-> name \o <<"_">>]
    ELSE [exc |-> "", val |-> name]

\* _sanitize_crate_name_chars without .lower()
sanitize_crate_name_chars_keeps_case(name) ==
    [ i \in DOMAIN name |-> IF IsWordChar(name[i]) THEN name[i] ELSE "_" ]

\* _sanitize_crate_name_chars: re.sub(r'\W', '_', name).lower()
sanitize_crate_name_chars(name) ==
    lower([ i \in DOMAIN name |-> IF IsWordChar(name[i]) THEN name[i] ELSE "_" ])

\* sys_crate_name with '{name}{version}_sys' for its format string
sys_crate_name_unseparated(namespace) ==
    sanitize_crate_name_chars(namespace.name)
        \o sanitize_crate_name_chars(namespace.version) \o <<"_","s","y","s">>

\* sys_crate_name(namespace)
sys_crate_name(namespace) ==
    sanitize_crate_name_chars(namespace.name) \o <<"_">>
        \o sanitize_crate_name_chars(namespace.version) \o <<"_","s","y","s">>

\* _strip_volatile: ^volatile +(?P<base_type>.*)$
strip_volatile(ctype) ==
    IF startswith(ctype, <<"v","o","l","a","t","i","l","e"," ">>)
    THEN LStripSpaces(DropFirst(ctype, 8))
    ELSE ctype

\* _ptr_const_patterns[0]: ^(?P<deref_type>.*[^ ]) +const *\*$
\* The result is the deref_type group, None when the pattern does not match.
ptr_const_pattern_0(ctype) ==
    IF ~endswith(ctype, <<"*">>) THEN None
    ELSE LET a == RStripSpaces(DropLast(ctype, 1)) IN
         IF ~endswith(a, <<" ","c","o","n","s","t">>) THEN None
         ELSE LET d == RStripSpaces(DropLast(a, 5)) IN
              IF d = << >> THEN None ELSE d

\* _ptr_const_patterns[1]: ^const +(?P<deref_type>.*[^* ]) *\*$
ptr_const_pattern_1(ctype) ==
    IF ~(startswith(ctype, <<"c","o","n","s","t"," ">>) /\ endswith(ctype, <<"*">>)) THEN None
    ELSE LET d == RStripSpaces(DropLast(LStripSpaces(DropFirst(ctype, 5)), 1)) IN
         IF d = << >> \/ d[Len(d)] = "*" THEN None ELSE d

\* _ptr_mut_pattern: ^(?P<deref_type>.*[^ ]) *\*$
ptr_mut_pattern(ctype) ==
    IF ~endswith(ctype, <<"*">>) THEN None
    ELSE LET d == RStripSpaces(DropLast(ctype, 1)) IN
         IF d = << >> THEN None ELSE d

\* The first of the tried patterns that matched, as _unwrap_pointer_ctype
\* returns it, or the MappingError it raises when none did
FirstMatch(tried) ==
    LET hits == { i \in DOMAIN tried : tried[i].deref_type # None } IN
    IF hits = { } THEN [exc |-> "MappingError", prefix |-> << >>, ctype |-> None]
    ELSE LET first == tried[CHOOSE i \in hits : \A j \in hits : i <= j] IN
         [exc |-> "", prefix |-> first.prefix, ctype |-> first.deref_type]

\* _unwrap_pointer_ctype(ctype, allow_const): [exc, prefix, ctype]
unwrap_pointer_ctype(ctype, allow_const) ==
    FirstMatch(<< [prefix |-> <<"*","c","o","n","s","t"," ">>,
                   deref_type |-> IF allow_const THEN ptr_const_pattern_0(ctype) ELSE None],
                  [prefix |-> <<"*","c","o","n","s","t"," ">>,
                   deref_type |-> IF allow_const THEN ptr_const_pattern_1(ctype) ELSE None],
                  [prefix |-> <<"*","m","u","t"," ">>, deref_type |-> ptr_mut_pattern(ctype)] >>)

-----------------------------------------------------------------------------
(* The declaration graph handed to the mapper (giscanner.ast objects) *)

NoSize == << >>
NoType == [kind |-> "NoType"]

\* ast.Type with a target_fundamental / with a target_giname / with neither
Fundamental(name, ctype) ==
    [kind |-> "Type", ctype |-> ctype, target_fundamental |-> name,
     target_giname |-> None, name |-> None, array_type |-> None,
     size |-> NoSize, element_type |-> NoType]
Named(giname, ctype) ==
    [kind |-> "Type", ctype |-> ctype, target_fundamental |-> None,
     target_giname |-> giname, name |-> None, array_type |-> None,
     size |-> NoSize, element_type |-> NoType]
Untyped(ctype) ==
    [kind |-> "Type", ctype |-> ctype, target_fundamental |-> None,
     target_giname |-> None, name |-> None, array_type |-> None,
     size |-> NoSize, element_type |-> NoType]
\* ast.Array: array_type is Array.C ("<c>") or a GLib array type name
ArrayC == <<"<","c",">">>
Array(array_type, element_type, size, ctype) ==
    [kind |-> "Array", ctype |-> ctype, target_fundamental |-> None,
     target_giname |-> None, name |-> None, array_type |-> array_type,
     size |-> size, element_type |-> element_type]
\* ast.List
List(name, element_type, ctype) ==
    [kind |-> "List", ctype |-> ctype, target_fundamental |-> None,
     target_giname |-> None, name |-> name, array_type |-> None,
     size |-> NoSize, element_type |-> element_type]
\* ast.Map (the key and value descriptors are not read by the mapper)
MapOf(key_type, value_type, ctype) ==
    [kind |-> "Map", ctype |-> ctype, target_fundamental |-> None,
     target_giname |-> None, name |-> None, array_type |-> None,
     size |-> NoSize, element_type |-> NoType,
     key_type |-> key_type, value_type |-> value_type]
Map(ctype) == MapOf(NoType, NoType, ctype)

\* ast.Parameter; ast.Return is a TypeContainer that is not a Parameter
Parameter(argname, type, direction, caller_allocates) ==
    [container |-> "Parameter", argname |-> argname, type |-> type,
     direction |-> direction, caller_allocates |-> caller_allocates,
     nullable |-> FALSE]
Return(type) ==
    [container |-> "Return", argname |-> None, type |-> type,
     direction |-> "out", caller_allocates |-> FALSE, nullable |-> FALSE]

\* ast.Field
NoNode == [kind |-> "None"]
Field(name, type) ==
    [name |-> name, type |-> type, bits |-> NoSize, anonymous_node |-> NoNode]
\* a field whose type is absent and that holds an anonymous declaration
AnonymousField(name, node) ==
    [name |-> name, type |-> NoType, bits |-> NoSize, anonymous_node |-> node]
BitField(name, type, bits) ==
    [name |-> name, type |-> type, bits |-> << bits >>, anonymous_node |-> NoNode]

TYPE_NONE == Fundamental(<<"n","o","n","e">>, <<"v","o","i","d">>)

\* Declarations: one record shape for every node class
\* (type is a Constant's value_type and an Alias's target)
Node(kind, name, ctype, parameters, retval, fields, type, value) ==
    [kind |-> kind, name |-> name, ctype |-> ctype, parameters |-> parameters,
     retval |-> retval, fields |-> fields, type |-> type, value |-> value]

Function(name, parameters, retval) ==
    Node("Function", name, None, parameters, retval, << >>, NoType, None)
Callback(name, ctype, parameters, retval) ==
    Node("Callback", name, ctype, parameters, retval, << >>, NoType, None)
Record(name, ctype, fields) ==
    Node("Record", name, ctype, << >>, Return(TYPE_NONE), fields, NoType, None)
Constant(name, value_type, value) ==
    Node("Constant", name, None, << >>, Return(TYPE_NONE), << >>, value_type, value)
Alias(name, ctype, target) ==
    Node("Alias", name, ctype, << >>, Return(TYPE_NONE), << >>, target, None)
Interface(name, ctype) ==
    Node("Interface", name, ctype, << >>, Return(TYPE_NONE), << >>, NoType, None)

\* isinstance(node, ast.Callable) / isinstance(node, ast.Compound)
IsCallable(node) == node.kind \in {"Function", "Callback", "VFunction", "Signal"}
IsCompound(node) == node.kind \in {"Record", "Union"}

\* The declarations a home namespace is drawn from.  Each home namespace of
\* the model is a list of distinct ones of these, in table order.
Catalogue ==
    << \* 1: a struct with a fixed-size array field (ctype as g-ir-scanner writes it)
       Record(<<"B","a","r">>, <<"F","o","o","B","a","r">>,
              << Field(<<"d","a","t","a">>, Array(ArrayC, Fundamental(<<"g","i","n","t","3","2">>, <<"g","i","n","t","3","2">>),
                                      << 4 >>, <<"g","i","n","t","3","2">>)) >>),
       \* 2: a home reference and an unannotated out-parameter of another namespace
       Function(<<"u","s","e","_","b","a","r">>,
                << Parameter(<<"b","a","r">>, Named(<<"F","o","o",".","B","a","r">>, <<"c","o","n","s","t"," ","F","o","o","B","a","r","*">>), "in", FALSE),
                   Parameter(<<"b","a","z">>, Named(<<"O","t","h","e","r",".","B","a","z">>, <<"B","a","z","O","b","j","e","c","t","*","*">>), "out", FALSE) >>,
                Return(TYPE_NONE)),
       \* 3: a host-platform primitive
       Alias(<<"S","i","z","e">>, <<"F","o","o","S","i","z","e">>, Fundamental(<<"g","u","l","o","n","g">>, <<"v","o","l","a","t","i","l","e"," ","s","i","z","e","_","t">>)),
       \* 4: a constant of a long long type
       Constant(<<"M","A","X">>, Fundamental(<<"u","n","s","i","g","n","e","d"," ","l","o","n","g"," ","l","o","n","g">>, <<"u","n","s","i","g","n","e","d"," ","l","o","n","g"," ","l","o","n","g">>), <<"-","1">>),
       \* 5: a reference into a namespace that was never loaded
       Alias(<<"H","a","n","d","l","e">>, <<"F","o","o","H","a","n","d","l","e">>, Named(<<"M","i","s","s","i","n","g",".","T","h","i","n","g">>, <<"M","i","s","s","i","n","g","T","h","i","n","g","*">>)),
       \* 6: a reference to a name its (loaded) namespace does not declare
       Function(<<"b","r","o","k","e","n","_","r","e","f">>,
                << Parameter(<<"a">>, Named(<<"O","t","h","e","r",".","B","a","z">>, <<"B","a","z","O","b","j","e","c","t","*">>), "in", FALSE),
                   Parameter(<<"b">>, Named(<<"O","t","h","e","r",".","N","o","p","e">>, <<"O","t","h","e","r","N","o","p","e","*">>), "in", FALSE) >>,
                Return(TYPE_NONE)),
       \* 7: a type that is neither fundamental nor named, after a good reference
       Function(<<"b","r","o","k","e","n","_","s","h","a","p","e">>,
                << Parameter(<<"a">>, Named(<<"O","T","H","E","R",".","Q","u","x">>, <<"O","T","H","E","R","Q","u","x","*">>), "in", FALSE),
                   Parameter(<<"b">>, Untyped(<<"s","t","r","u","c","t"," ","_","x","*">>), "in", FALSE),
                   Parameter(<<"c">>, Fundamental(<<"g","l","o","n","g">>, <<"s","s","i","z","e","_","t">>), "in", FALSE) >>,
                Return(TYPE_NONE)),
       \* 8: containers
       Record(<<"H","o","l","d","e","r">>, <<"F","o","o","H","o","l","d","e","r">>,
              << Field(<<"i","t","e","m","s">>, List(<<"G","L","i","b",".","L","i","s","t">>, Named(<<"O","t","h","e","r",".","B","a","z">>, <<"B","a","z","O","b","j","e","c","t","*">>),
                                      <<"G","L","i","s","t","*">>)),
                 Field(<<"o","w","n","e","r">>, Named(<<"O","t","h","e","r",".","B","a","z">>, <<"B","a","z","O","b","j","e","c","t","*">>)),
                 Field(<<"t","a","b","l","e">>, MapOf(Fundamental(<<"u","t","f","8">>, <<"c","o","n","s","t"," ","g","c","h","a","r","*">>),
                                       Named(<<"O","T","H","E","R",".","Q","u","x">>, <<"O","T","H","E","R","Q","u","x","*">>), <<"G","H","a","s","h","T","a","b","l","e","*">>)),
                 Field(<<"l","e","n","g","t","h">>, Fundamental(<<"g","u","l","o","n","g">>, <<"s","i","z","e","_","t">>)),
                 Field(<<"b","y","t","e","s">>, Array(ArrayC, Fundamental(<<"g","u","i","n","t","8">>, <<"g","u","i","n","t","8">>),
                                       NoSize, <<"g","u","i","n","t","8","*">>)) >>),
       \* 9: an out-parameter declared with a const pointer
       Callback(<<"N","o","t","i","f","y">>, <<"F","o","o","N","o","t","i","f","y">>,
                << Parameter(<<"n">>, Fundamental(<<"g","i","n","t">>, <<"g","i","n","t">>), "in", FALSE),
                   Parameter(<<"r","e","s">>, Named(<<"O","t","h","e","r",".","B","a","z">>, <<"c","o","n","s","t"," ","B","a","z","O","b","j","e","c","t","*">>), "out", FALSE) >>,
                Return(TYPE_NONE)),
       \* 10: a reference through an identifier prefix of the home namespace
       Function(<<"l","e","g","a","c","y">>,
                << Parameter(<<"x">>, Named(<<"F",".","B","a","r">>, <<"F","o","o","B","a","r","*">>), "in", FALSE) >>,
                Return(Named(<<"O","t","h","e","r",".","B","a","z">>, <<"g","p","o","i","n","t","e","r">>))),
       \* 11: fixed-size arrays whose own ctype is a basic type
       Record(<<"G","r","i","d">>, <<"F","o","o","G","r","i","d">>,
              << Field(<<"c","e","l","l","s">>, Array(ArrayC, Named(<<"O","t","h","e","r",".","B","a","z">>, <<"B","a","z","O","b","j","e","c","t","*">>),
                                       << 2 >>, <<"g","p","o","i","n","t","e","r">>)),
                 Field(<<"s","i","z","e","s">>, Array(ArrayC, Fundamental(<<"g","u","l","o","n","g">>, <<"s","i","z","e","_","t">>),
                                       << 2 >>, <<"g","u","l","o","n","g">>)) >>),
       \* 12: a field whose type has no ctype (a generated name)
       Record(<<"A","n","o","n">>, <<"F","o","o","A","n","o","n">>, << Field(<<"u">>, Named(<<"F","o","o",".","B","a","r">>, None)) >>),
       \* 13: an interface
       Interface(<<"I","f","a","c","e">>, <<"F","o","o","I","f","a","c","e">>) >>

\* The namespaces of a run.  A Namespace object is identified by its position
\* in this table (Namespace objects compare by identity); 1 is the home
\* namespace, whose declarations are the state variable nodes.
HomeId == 1

Namespaces ==
    << [name |-> <<"F","o","o">>, version |-> <<"1",".","0">>, identifier_prefixes |-> { <<"F","o","o">>, <<"F">> },
        names |-> { }, callbacks |-> { }],
       [name |-> <<"O","t","h","e","r">>, version |-> <<"1",".","0">>, identifier_prefixes |-> { <<"B","a","z">> },
        names |-> { <<"B","a","z">> }, callbacks |-> { }],
       [name |-> <<"O","T","H","E","R">>, version |-> <<"1",".","0">>, identifier_prefixes |-> { <<"O","T","H","E","R">> },
        names |-> { <<"Q","u","x">> }, callbacks |-> { }],
       [name |-> <<"G","L","i","b">>, version |-> <<"2",".","0">>, identifier_prefixes |-> { <<"G">> },
        names |-> { <<"L","i","s","t">>, <<"H","a","s","h","T","a","b","l","e">>, <<"A","r","r","a","y">> }, callbacks |-> { }] >>

\* Transformer._parsed_includes after parse_from_gir: every loaded namespace
\* but the home one, by name.
parsed_includes == { i \in DOMAIN Namespaces : i # HomeId }

\* The names the home namespace declares / Namespace.names of namespace ns
HomeNames == { nodes[i].name : i \in DOMAIN nodes }
NamesOf(ns) == IF ns = HomeId THEN HomeNames ELSE Namespaces[ns].names

\* Namespace.get(name): the declaration's namespace, 0 for None
NamespaceGet(ns, name) == IF name \in NamesOf(ns) THEN ns ELSE 0

\* lookup_giname without the fallback to the home namespace
lookup_giname_strict(name) ==
    IF ~HasDot(name)
    THEN [exc |-> "", node |-> NamespaceGet(HomeId, name), warned |-> FALSE]
    ELSE With({ i \in parsed_includes : Namespaces[i].name = SplitHead(name) }, LAMBDA known :
         IF SplitHead(name) = Namespaces[HomeId].name
         THEN [exc |-> "", node |-> NamespaceGet(HomeId, SplitRest(name)), warned |-> FALSE]
         ELSE IF known = { }
         THEN [exc |-> "KeyError", node |-> 0, warned |-> FALSE]
         ELSE [exc |-> "", node |-> NamespaceGet(CHOOSE i \in known : TRUE, SplitRest(name)),
               warned |-> FALSE])

\* Transformer.lookup_giname(name): [exc, node, warned]; node is the found
\* declaration's namespace, 0 for None
lookup_giname(name) ==
    IF ~HasDot(name)
    THEN [exc |-> "", node |-> NamespaceGet(HomeId, name), warned |-> FALSE]
    ELSE LET ns == SplitHead(name)
             giname == SplitRest(name)
             known == { i \in parsed_includes : Namespaces[i].name = ns }
         IN  IF ns = Namespaces[HomeId].name
             THEN [exc |-> "", node |-> NamespaceGet(HomeId, giname), warned |-> FALSE]
             ELSE IF ns \in Namespaces[HomeId].identifier_prefixes /\ known = { }
             THEN [exc |-> "", node |-> NamespaceGet(HomeId, giname), warned |-> TRUE]
             ELSE IF known = { }
             THEN [exc |-> "KeyError", node |-> 0, warned |-> FALSE]
             ELSE [exc |-> "", node |-> NamespaceGet(CHOOSE i \in known : TRUE, giname),
                   warned |-> FALSE]

-----------------------------------------------------------------------------
(* grust/mapping.py: Crate and RawMapper, Pass 1 (resolve) *)

\* No Crate object (None where a Crate is expected)
NoCrate == [name |-> None, local_name |-> None, namespace |-> 0, id |-> 0]

\* Crate.__init__(name, local_name, namespace), for a given local_name.
\* id tells Crate objects apart: it is the object's identity.
Crate(name, local_name, namespace, id) ==
    IF ~is_ident(name) \/ ~is_ident(local_name)
    THEN [exc |-> "AssertionError", crate |-> NoCrate]
    ELSE [exc |-> "",
          crate |-> [name |-> name, local_name |-> local_name,
                     namespace |-> namespace, id |-> id]]

\* RawMapper._create_crate(namespace)
create_crate(namespace, id) ==
    With(sanitize_ident(lower(Namespaces[namespace].name)), LAMBDA local_name :
    IF local_name.exc # "" THEN [exc |-> local_name.exc, crate |-> NoCrate]
    ELSE Crate(sys_crate_name(Namespaces[namespace]),
               IF local_name.val = <<"l","i","b","c">> THEN <<"l","i","b","c","_">> ELSE local_name.val,
               namespace, id))

\* The mapper's fields
MapperState == [crate |-> crate, extern_crates |-> extern_crates,
                crate_libc |-> crate_libc, created |-> created]

\* dict.get(name) on _extern_crates: the Crate, NoCrate for None
RegistryGet(registry, name) ==
    IF \E i \in DOMAIN registry : registry[i].key = name
    THEN registry[CHOOSE i \in DOMAIN registry : registry[i].key = name].crate
    ELSE NoCrate

RegistryKeys(registry) == { registry[i].key : i \in DOMAIN registry }

\* What a resolve call gives back: the mapper's state after it, the exception
\* it raised ("" for none), the returned set of Crates, and what it did on the
\* way: the foreign namespaces named references resolved into (refs), the
\* number of libc-typed fundamentals resolved (hits), lookup warnings (warns).
Returned(ms, crates) ==
    [ms |-> ms, exc |-> "", crates |-> crates, refs |-> { }, hits |-> 0, warns |-> 0]
Raised(ms, exc) ==
    [ms |-> ms, exc |-> exc, crates |-> { }, refs |-> { }, hits |-> 0, warns |-> 0]

\* crates |= <a further call>: s is the further call, made in state r.ms
Join(r, s) ==
    [ms |-> s.ms, exc |-> s.exc,
     crates |-> IF s.exc = "" THEN r.crates \cup s.crates ELSE { },
     refs |-> r.refs \cup s.refs, hits |-> r.hits + s.hits,
     warns |-> r.warns + s.warns]

\* _register_namespace making a Crate whether or not the name is bound
register_namespace_rebinds(ms, namespace) ==
    IF namespace = ms.crate.namespace THEN Returned(ms, { })
    ELSE With(Namespaces[namespace].name, LAMBDA name :
         With(create_crate(namespace, ms.created + 1), LAMBDA new :
         IF new.exc # "" THEN Raised(ms, new.exc)
         ELSE Returned([ms EXCEPT
                          !.extern_crates =
                              IF name \in RegistryKeys(@)
                              THEN [ i \in DOMAIN @ |->
                                       IF @[i].key = name
                                       THEN [key |-> name, crate |-> new.crate]
                                       ELSE @[i] ]
                              ELSE Append(@, [key |-> name, crate |-> new.crate]),
                          !.created = @ + 1],
                       { new.crate })))

\* _register_namespace without its test for the home namespace
register_namespace_home_too(ms, namespace) ==
    With(Namespaces[namespace].name, LAMBDA name :
    With(RegistryGet(ms.extern_crates, name), LAMBDA xcrate :
    IF xcrate # NoCrate THEN Returned(ms, { xcrate })
    ELSE With(create_crate(namespace, ms.created + 1), LAMBDA new :
         Returned([ms EXCEPT
                     !.extern_crates = Append(@, [key |-> name, crate |-> new.crate]),
                     !.created = @ + 1],
                  { new.crate }))))

\* RawMapper._register_namespace(namespace)
register_namespace(ms, namespace) ==
    IF namespace = ms.crate.namespace THEN Returned(ms, { })
    ELSE With(Namespaces[namespace].name, LAMBDA name :
         With(RegistryGet(ms.extern_crates, name), LAMBDA xcrate :
         IF xcrate # NoCrate THEN Returned(ms, { xcrate })
         ELSE With(create_crate(namespace, ms.created + 1), LAMBDA new :
              IF new.exc # "" THEN Raised(ms, new.exc)
              ELSE Returned([ms EXCEPT
                               !.extern_crates =
                                   Append(@, [key |-> name, crate |-> new.crate]),
                               !.created = @ + 1],
                            { new.crate }))))

\* RawMapper._resolve_giname(name)
resolve_giname(ms, name) ==
    With(lookup_giname(name), LAMBDA found :
    With(IF found.warned THEN 1 ELSE 0, LAMBDA warns :
    IF found.exc # "" THEN [Raised(ms, found.exc) EXCEPT !.warns = warns]
    ELSE IF found.node = 0
    THEN [Raised(ms, "ConsistencyError") EXCEPT !.warns = warns]
    ELSE With(register_namespace(ms, found.node), LAMBDA r :
         [r EXCEPT !.warns = warns,
                   !.refs = IF r.exc = "" /\ found.node # HomeId
                            THEN { Namespaces[found.node].name } ELSE { }])))

\* _resolve_fundamental_type without its test for an existing libc Crate
resolve_fundamental_type_always_new(ms, typename, ctype) ==
    IF InTable(ctype, libc_types)
    THEN With(Crate(<<"l","i","b","c">>, <<"l","i","b","c">>, 0, ms.created + 1).crate, LAMBDA new :
         [Returned([ms EXCEPT !.crate_libc = new, !.created = @ + 1], { new })
             EXCEPT !.hits = 1])
    ELSE Returned(ms, { })

\* _resolve_fundamental_type making the libc Crate for any fundamental type
resolve_fundamental_type_eager(ms, typename, ctype) ==
    IF ms.crate_libc = NoCrate
    THEN With(Crate(<<"l","i","b","c">>, <<"l","i","b","c">>, 0, ms.created + 1).crate, LAMBDA new :
         [Returned([ms EXCEPT !.crate_libc = new, !.created = @ + 1],
                   IF InTable(ctype, libc_types) THEN { new } ELSE { })
             EXCEPT !.hits = IF InTable(ctype, libc_types) THEN 1 ELSE 0])
    ELSE IF InTable(ctype, libc_types)
    THEN [Returned(ms, { ms.crate_libc }) EXCEPT !.hits = 1]
    ELSE Returned(ms, { })

\* RawMapper._resolve_fundamental_type(typename, ctype)
resolve_fundamental_type(ms, typename, ctype) ==
    IF InTable(ctype, libc_types)
    THEN IF ms.crate_libc = NoCrate
         THEN With(Crate(<<"l","i","b","c">>, <<"l","i","b","c">>, 0, ms.created + 1).crate, LAMBDA new :
              [Returned([ms EXCEPT !.crate_libc = new, !.created = @ + 1], { new })
                  EXCEPT !.hits = 1])
         ELSE [Returned(ms, { ms.crate_libc }) EXCEPT !.hits = 1]
    ELSE Returned(ms, { })

\* The name _resolve_type_internal and _resolve_array pass to _resolve_giname
\* for a descriptor they resolve by name, None for any other descriptor
giname_to_resolve(typedesc) ==
    IF typedesc.kind = "Array"
    THEN IF typedesc.array_type = ArrayC THEN None ELSE typedesc.array_type
    ELSE IF typedesc.kind = "List" THEN typedesc.name
    ELSE IF typedesc.kind = "Map" THEN <<"G","L","i","b",".","H","a","s","h","T","a","b","l","e">>
    ELSE IF typedesc.target_fundamental # None THEN None
    ELSE typedesc.target_giname

\* RawMapper._resolve_type_internal(typedesc, actual_ctype), with
\* RawMapper._resolve_array(typedesc, actual_ctype) in its Array branch
RECURSIVE resolve_type_internal(_, _, _)
resolve_type_internal(ms, typedesc, actual_ctype) ==
    IF InTable(actual_ctype, ffi_basic_types) THEN Returned(ms, { })
    ELSE IF giname_to_resolve(typedesc) # None
    THEN resolve_giname(ms, giname_to_resolve(typedesc))
    ELSE IF typedesc.kind = "Array"
    THEN IF typedesc.size = NoSize
         THEN IF actual_ctype = None THEN Raised(ms, "TypeError")
              ELSE With(unwrap_pointer_ctype(actual_ctype, TRUE), LAMBDA u :
                   IF u.exc # "" THEN Raised(ms, u.exc)
                   ELSE resolve_type_internal(ms, typedesc.element_type, u.ctype))
         ELSE resolve_type_internal(ms, typedesc.element_type,
                                    typedesc.element_type.ctype)
    ELSE IF typedesc.target_fundamental # None
    THEN resolve_fundamental_type(ms, typedesc.target_fundamental, actual_ctype)
    ELSE Raised(ms, "MappingError")

\* RawMapper.resolve_type(typedesc); a ctype of None fails in the regular
\* expression match of _strip_volatile
resolve_type(ms, typedesc) ==
    IF typedesc.ctype = None THEN Raised(ms, "TypeError")
    ELSE resolve_type_internal(ms, typedesc, strip_volatile(typedesc.ctype))

\* _unwrap_call_signature_ctype(type_container): [exc, prefix, ctype]
unwrap_call_signature_ctype(type_container) ==
    With(type_container.type.ctype, LAMBDA ctype :
    IF ctype = None THEN [exc |-> "MappingError", prefix |-> << >>, ctype |-> None]
    ELSE IF /\ type_container.container = "Parameter"
            /\ type_container.direction \in {"out", "inout"}
            /\ ~type_container.caller_allocates
    THEN With(unwrap_pointer_ctype(ctype, FALSE), LAMBDA u :
         IF u.exc # "" THEN u
         ELSE [exc |-> "", prefix |-> u.prefix, ctype |-> strip_volatile(u.ctype)])
    ELSE [exc |-> "", prefix |-> << >>, ctype |-> strip_volatile(ctype)])

\* RawMapper.resolve_call_signature_type(type_container)
resolve_call_signature_type(ms, type_container) ==
    With(unwrap_call_signature_ctype(type_container), LAMBDA u :
    IF u.exc # "" THEN Raised(ms, u.exc)
    ELSE resolve_type_internal(ms, type_container.type, u.ctype))

\* The calls of _resolve_callable to resolve_call_signature_type, one per
\* type container (the parameters, then the return value), from result acc on
RECURSIVE resolve_call_signature(_, _)
resolve_call_signature(acc, type_containers) ==
    IF acc.exc # "" \/ type_containers = << >> THEN acc
    ELSE resolve_call_signature(
             Join(acc, resolve_call_signature_type(acc.ms, Head(type_containers))),
             Tail(type_containers))

\* RawMapper._resolve_callable(node)
resolve_callable(ms, node) ==
    IF node.kind \notin {"Function", "Callback"} THEN Returned(ms, { })
    ELSE resolve_call_signature(Returned(ms, { }),
                                node.parameters \o << node.retval >>)

\* The loop of _resolve_compound over node.fields, from result acc on
RECURSIVE resolve_fields(_, _)
resolve_fields(acc, fields) ==
    IF acc.exc # "" \/ fields = << >> THEN acc
    ELSE IF Head(fields).type.kind = "NoType" THEN resolve_fields(acc, Tail(fields))
    ELSE resolve_fields(Join(acc, resolve_type(acc.ms, Head(fields).type)),
                        Tail(fields))

\* RawMapper._resolve_compound(node)
resolve_compound(ms, node) == resolve_fields(Returned(ms, { }), node.fields)

\* RawMapper.resolve_types_for_node(node)
resolve_types_for_node(ms, node) ==
    IF IsCallable(node) THEN resolve_callable(ms, node)
    ELSE IF IsCompound(node) THEN resolve_compound(ms, node)
    ELSE IF node.kind \in {"Constant", "Alias"} THEN resolve_type(ms, node.type)
    ELSE IF node.kind = "Interface" /\ node.fields # << >>
    THEN Raised(ms, "AssertionError")
    ELSE Returned(ms, { })

\* RawMapper.extern_crates(): the Crates in the order the iterator yields them.
\* sorted() is stable: Crates of equal name keep the registry's order.
RECURSIVE sorted_by_name(_)
sorted_by_name(crates) ==
    IF crates = << >> THEN << >>
    ELSE LET rest == sorted_by_name(Tail(crates))
             x == Head(crates)
             \* x goes before the first element of rest whose name is not less than x's
             before == { i \in DOMAIN rest : \A j \in 1 .. i : StrLess(rest[j].name, x.name) }
             k == Cardinality(before)
         IN  SubSeq(rest, 1, k) \o << x >> \o SubSeq(rest, k + 1, Len(rest))

RegistryValues(registry) == [ i \in DOMAIN registry |-> registry[i].crate ]

\* extern_crates() without the sort
extern_crates_iter_unsorted(ms) ==
    RegistryValues(ms.extern_crates)
        \o (IF ms.crate_libc # NoCrate THEN << ms.crate_libc >> ELSE << >>)

extern_crates_iter(ms) ==
    sorted_by_name(RegistryValues(ms.extern_crates))
        \o (IF ms.crate_libc # NoCrate THEN << ms.crate_libc >> ELSE << >>)

-----------------------------------------------------------------------------
(* grust/mapping.py: RawMapper, Pass 2 (map).  A map call gives back the      *)
(* exception it raised ("" for none) and the Rust syntax it returned.         *)

Syntax(text) == [exc |-> "", syntax |-> text]
Failed(exc) == [exc |-> exc, syntax |-> None]
\* prefix + <a call's result>
Prefixed(prefix, r) == IF r.exc # "" THEN r ELSE Syntax(prefix \o r.syntax)

\* str(n) for a natural number
RECURSIVE str(_)
str(n) == IF n < 10 THEN << DigitChars[n + 1] >>
          ELSE str(n \div 10) \o << DigitChars[(n % 10) + 1] >>

\* _is_fixed_size_array testing for a GLib array type
is_fixed_size_array_of_glib(typedesc) ==
    typedesc.kind = "Array" /\ typedesc.array_type # ArrayC /\ typedesc.size # NoSize

\* _is_fixed_size_array(typedesc)
is_fixed_size_array(typedesc) ==
    typedesc.kind = "Array" /\ typedesc.array_type = ArrayC /\ typedesc.size # NoSize

\* isinstance(crate.namespace.names[name], ast.Callback)
IsCallbackIn(namespace, name) ==
    IF namespace = HomeId
    THEN \E i \in DOMAIN nodes : nodes[i].name = name /\ nodes[i].kind = "Callback"
    ELSE name \in Namespaces[namespace].callbacks

\* _lookup_giname taking the home crate for a namespace that is not registered
map_lookup_giname_substitutes(ms, giname) ==
    With(IF HasDot(giname) THEN SplitHead(giname) ELSE None, LAMBDA ns_name :
    With(IF HasDot(giname) THEN SplitRest(giname) ELSE giname, LAMBDA nqname :
    With(IF ns_name \in RegistryKeys(ms.extern_crates)
         THEN RegistryGet(ms.extern_crates, ns_name) ELSE ms.crate, LAMBDA found :
    [exc |-> "", crate |-> found, name |-> nqname])))

\* RawMapper._lookup_giname(giname): [exc, crate, name]
map_lookup_giname(ms, giname) ==
    With(IF HasDot(giname) THEN SplitHead(giname) ELSE None, LAMBDA ns_name :
    With(IF HasDot(giname) THEN SplitRest(giname) ELSE giname, LAMBDA nqname :
    With(ns_name \in { None, Namespaces[ms.crate.namespace].name }, LAMBDA home :
    IF ~home /\ ns_name \notin RegistryKeys(ms.extern_crates)
    THEN [exc |-> "AssertionError", crate |-> NoCrate, name |-> None]
    ELSE With(IF home THEN ms.crate ELSE RegistryGet(ms.extern_crates, ns_name),
              LAMBDA found :
         IF nqname \notin NamesOf(found.namespace)
         THEN [exc |-> "AssertionError", crate |-> NoCrate, name |-> None]
         ELSE [exc |-> "", crate |-> found, name |-> nqname]))))

\* RawMapper._map_fundamental_type(typename, ctype)
map_fundamental_type(ms, typename, ctype) ==
    IF InTable(ctype, libc_types)
    THEN IF ms.crate_libc = NoCrate THEN Failed("AssertionError")
         ELSE Syntax(ms.crate_libc.local_name \o <<":",":">> \o Lookup(ctype, libc_types))
    ELSE IF InTable(typename, ffi_basic_types)
    THEN Syntax(Lookup(typename, ffi_basic_types))
    ELSE IF typename \in { <<"u","t","f","8">>, <<"f","i","l","e","n","a","m","e">> } THEN Syntax(<<"*","m","u","t"," ","g","c","h","a","r">>)
    ELSE Failed("MappingError")

\* The loop of _map_introspected_type that peels up to two pointer layers:
\* [exc, prefix, ctype]
RECURSIVE peel_pointers(_, _, _)
peel_pointers(prefix, ctype, layers) ==
    IF layers = 0 \/ ~endswith(ctype, <<"*">>)
    THEN [exc |-> "", prefix |-> prefix, ctype |-> ctype]
    ELSE With(unwrap_pointer_ctype(ctype, TRUE), LAMBDA u :
         IF u.exc # "" THEN u
         ELSE peel_pointers(prefix \o u.prefix, u.ctype, layers - 1))

\* _map_introspected_type rendering crate.name for the path of a reference
map_introspected_type_by_crate_name(ms, giname, ctype, nullable) ==
    With(map_lookup_giname(ms, giname), LAMBDA found :
    IF found.exc # "" THEN Failed(found.exc)
    ELSE With(IF ctype = None
              THEN [exc |-> "", prefix |-> << >>, ctype |-> found.name]
              ELSE peel_pointers(<< >>, ctype, 2), LAMBDA peeled :
         IF peeled.exc # "" THEN Failed(peeled.exc)
         ELSE IF ~is_ident(peeled.ctype) THEN Failed("MappingError")
         ELSE With(IF found.crate = ms.crate
                   THEN peeled.prefix \o peeled.ctype
                   ELSE peeled.prefix \o found.crate.name
                            \o <<":",":">> \o peeled.ctype, LAMBDA syntax :
              IF nullable /\ IsCallbackIn(found.crate.namespace, found.name)
              THEN Syntax(<<"O","p","t","i","o","n","<">> \o syntax \o <<">">>)
              ELSE Syntax(syntax))))

\* RawMapper._map_introspected_type(giname, ctype, nullable)
map_introspected_type(ms, giname, ctype, nullable) ==
    With(map_lookup_giname(ms, giname), LAMBDA found :
    IF found.exc # "" THEN Failed(found.exc)
    ELSE With(IF ctype = None
              THEN [exc |-> "", prefix |-> << >>, ctype |-> found.name]
              ELSE peel_pointers(<< >>, ctype, 2), LAMBDA peeled :
         IF peeled.exc # "" THEN Failed(peeled.exc)
         ELSE IF ~is_ident(peeled.ctype) THEN Failed("MappingError")
         ELSE With(IF found.crate = ms.crate
                   THEN peeled.prefix \o peeled.ctype
                   ELSE peeled.prefix \o found.crate.local_name
                            \o <<":",":">> \o peeled.ctype, LAMBDA syntax :
              IF nullable /\ IsCallbackIn(found.crate.namespace, found.name)
              THEN Syntax(<<"O","p","t","i","o","n","<">> \o syntax \o <<">">>)
              ELSE Syntax(syntax))))

\* The assertion of _map_array and _map_list_type on the GLib naming pair
glib_names_match(typename, ctype) ==
    /\ startswith(typename, <<"G","L","i","b",".">>)
    /\ startswith(ctype, <<"G">>)
    /\ DropFirst(typename, 5) = DropFirst(ctype, 1)

\* The GLib type a container descriptor is mapped as: the array type of a
\* GLib array in _map_array, the list's name in _map_list_type,
\* GLib.HashTable in _map_hash_table; None for any other descriptor
container_typename(typedesc) ==
    IF typedesc.kind = "Array"
    THEN IF typedesc.array_type = ArrayC THEN None ELSE typedesc.array_type
    ELSE IF typedesc.kind = "List" THEN typedesc.name
    ELSE IF typedesc.kind = "Map" THEN <<"G","L","i","b",".","H","a","s","h","T","a","b","l","e">>
    ELSE None

\* RawMapper._map_list_type(typedesc, actual_ctype),
\* RawMapper._map_hash_table(typedesc, actual_ctype) and the branch of
\* RawMapper._map_array for GLib arrays: the pointer is unwrapped, the names
\* asserted, the named type mapped
map_container(ms, typedesc, ctype) ==
    IF ctype = None THEN Failed("TypeError")
    ELSE With(unwrap_pointer_ctype(ctype, TRUE), LAMBDA u :
         IF u.exc # "" THEN Failed(u.exc)
         ELSE IF typedesc.kind = "Map" /\ u.ctype # <<"G","H","a","s","h","T","a","b","l","e">>
         THEN Failed("AssertionError")
         ELSE IF typedesc.kind # "Map"
                 /\ ~glib_names_match(container_typename(typedesc), u.ctype)
         THEN Failed("AssertionError")
         ELSE Prefixed(u.prefix,
                       map_introspected_type(ms, container_typename(typedesc),
                                             u.ctype, FALSE)))

\* The ctype _map_type maps by: the one given, the descriptor's own without
\* its volatile qualifier when none is given
actual_ctype_of(typedesc, given_ctype) ==
    IF given_ctype = None /\ typedesc.ctype # None
    THEN strip_volatile(typedesc.ctype)
    ELSE given_ctype

\* RawMapper._map_type(typedesc, actual_ctype, nullable), with the C array
\* branch of RawMapper._map_array(array, actual_ctype)
RECURSIVE map_type(_, _, _, _)
map_type(ms, typedesc, given_ctype, nullable) ==
    With(actual_ctype_of(typedesc, given_ctype), LAMBDA actual_ctype :
    IF actual_ctype \in { None, << >> } /\ typedesc.target_giname = None
    THEN Failed("AssertionError")
    ELSE IF InTable(actual_ctype, ffi_basic_types) /\ ~is_fixed_size_array(typedesc)
    THEN Syntax(Lookup(actual_ctype, ffi_basic_types))
    ELSE IF container_typename(typedesc) # None
    THEN map_container(ms, typedesc, actual_ctype)
    ELSE IF typedesc.kind = "Array"
    THEN IF typedesc.size = NoSize
         THEN With(unwrap_pointer_ctype(actual_ctype, TRUE), LAMBDA u :
              IF u.exc # "" THEN Failed(u.exc)
              ELSE Prefixed(u.prefix,
                            map_type(ms, typedesc.element_type, u.ctype, FALSE)))
         ELSE With(map_type(ms, typedesc.element_type, None, FALSE), LAMBDA e :
              IF e.exc # "" THEN e
              ELSE Syntax(<<"[">> \o e.syntax \o <<";"," ">>
                              \o str(typedesc.size[1]) \o <<"]">>))
    ELSE IF typedesc.target_fundamental # None
    THEN map_fundamental_type(ms, typedesc.target_fundamental, actual_ctype)
    ELSE IF typedesc.target_giname # None
    THEN map_introspected_type(ms, typedesc.target_giname, actual_ctype, nullable)
    ELSE Failed("MappingError"))

\* RawMapper.map_aliased_type(alias)
map_aliased_type(ms, alias) == map_type(ms, alias.type, None, FALSE)

\* RawMapper.map_parameter_type(parameter)
map_parameter_type(ms, parameter) ==
    With(unwrap_call_signature_ctype(parameter), LAMBDA u :
    IF u.exc # "" THEN Failed(u.exc)
    ELSE Prefixed(u.prefix, map_type(ms, parameter.type, u.ctype, parameter.nullable)))

\* RawMapper.map_return_type(retval)
map_return_type(ms, retval) == map_type(ms, retval.type, None, retval.nullable)

\* The list comprehension of map_callback joined with ', ': [exc, syntax]
RECURSIVE map_parameter_list(_, _)
map_parameter_list(ms, parameters) ==
    IF parameters = << >> THEN Syntax(<< >>)
    ELSE With(map_parameter_type(ms, Head(parameters)), LAMBDA p :
         IF p.exc # "" THEN p
         ELSE IF Tail(parameters) = << >> THEN p
         ELSE Prefixed(p.syntax \o <<","," ">>, map_parameter_list(ms, Tail(parameters))))

\* RawMapper.map_callback(callback, nullable)
map_callback(ms, callback, nullable) ==
    With(map_parameter_list(ms, callback.parameters), LAMBDA param_list :
    IF param_list.exc # "" THEN param_list
    ELSE With(<<"e","x","t","e","r","n"," ">> \o << "\"" >> \o <<"C">> \o << "\"" >> \o <<" ","f","n"," ","(">>
                  \o param_list.syntax \o <<")">>, LAMBDA head :
         With(IF callback.retval.type # TYPE_NONE
              THEN Prefixed(head \o <<" ","-",">"," ">>, map_return_type(ms, callback.retval))
              ELSE Syntax(head), LAMBDA full :
         IF full.exc # "" THEN full
         ELSE IF nullable THEN Syntax(<<"O","p","t","i","o","n","<">> \o full.syntax \o <<">">>)
         ELSE full)))

\* RawMapper.map_field_type(field)
map_field_type(ms, field) ==
    IF field.bits # NoSize THEN Failed("MappingError")
    ELSE IF field.type.kind = "NoType"
    THEN IF field.anonymous_node.kind = "Callback"
         THEN map_callback(ms, field.anonymous_node, TRUE)
         ELSE Failed("MappingError")
    ELSE map_type(ms, field.type, None, TRUE)

-----------------------------------------------------------------------------
(* grust/mapping.py: constant values *)

unsigned_types ==
    { <<"g","u","s","h","o","r","t">>, <<"g","u","i","n","t">>, <<"g","u","l","o","n","g">>, <<"g","u","i","n","t","8">>, <<"g","u","i","n","t","1","6">>, <<"g","u","i","n","t","3","2">>, <<"g","u","i","n","t","6","4">>,
      <<"g","s","i","z","e">>, <<"g","u","i","n","t","p","t","r">>, <<"g","u","n","i","c","h","a","r">>, <<"u","n","s","i","g","n","e","d"," ","l","o","n","g"," ","l","o","n","g">> }

string_ctypes == { <<"g","c","h","a","r","*">>, <<"c","o","n","s","t"," ","g","c","h","a","r","*">>, <<"c","h","a","r","*">>, <<"c","o","n","s","t"," ","c","h","a","r","*">> }

\* SizedIntTypeInfo._get_map(): [bit_width, signed] by fundamental type name
sized_int_types ==
    { << <<"g","i","n","t","8">>, [bit_width |-> 8, signed |-> TRUE] >>,
      << <<"g","u","i","n","t","8">>, [bit_width |-> 8, signed |-> FALSE] >>,
      << <<"g","i","n","t","1","6">>, [bit_width |-> 16, signed |-> TRUE] >>,
      << <<"g","u","i","n","t","1","6">>, [bit_width |-> 16, signed |-> FALSE] >>,
      << <<"g","i","n","t","3","2">>, [bit_width |-> 32, signed |-> TRUE] >>,
      << <<"g","u","i","n","t","3","2">>, [bit_width |-> 32, signed |-> FALSE] >>,
      << <<"g","i","n","t","6","4">>, [bit_width |-> 64, signed |-> TRUE] >>,
      << <<"g","u","i","n","t","6","4">>, [bit_width |-> 64, signed |-> FALSE] >> }

\* _integer_constant_pat.match(value): -?\d+$
integer_constant_pat(value) ==
    LET digits == IF value # << >> /\ value[1] = "-" THEN Tail(value) ELSE value IN
    digits # << >> /\ \A i \in DOMAIN digits : IsDigit(digits[i])

DigitValue(c) == (CHOOSE i \in DOMAIN DigitChars : DigitChars[i] = c) - 1

\* A Python int is unbounded: [neg, mag], mag the decimal digits of its
\* magnitude, most significant first, without leading zeros.
RECURSIVE Normal(_)
Normal(mag) == IF Len(mag) > 1 /\ mag[1] = 0 THEN Normal(Tail(mag)) ELSE mag \o << >>

PyInt(neg, mag) ==
    With(Normal(mag), LAMBDA m : [neg |-> neg /\ m # <<0>>, mag |-> m])

\* the int a small number of the model stands for
NatOf(n) == PyInt(FALSE, [ i \in DOMAIN str(n) |-> DigitValue(str(n)[i]) ])

\* -x
Neg(x) == PyInt(~x.neg, x.mag)

\* |x| < |y| for two magnitudes
MagLess(a, b) ==
    \/ Len(a) < Len(b)
    \/ /\ Len(a) = Len(b)
       /\ \E i \in DOMAIN a : a[i] < b[i] /\ \A j \in 1..(i - 1) : a[j] = b[j]

\* x <= y
IntLeq(x, y) ==
    IF x.neg # y.neg THEN x.neg
    ELSE IF x.neg THEN ~MagLess(x.mag, y.mag)
    ELSE ~MagLess(y.mag, x.mag)

Pad(a, n) == [ i \in 1..n |-> IF i <= n - Len(a) THEN 0 ELSE a[i - (n - Len(a))] ] \o << >>

\* the carry into (borrow from) digit i of two magnitudes of one length
RECURSIVE Carry(_, _, _)
Carry(a, b, i) ==
    IF i = Len(a) THEN 0 ELSE (a[i + 1] + b[i + 1] + Carry(a, b, i + 1)) \div 10

RECURSIVE Borrow(_, _, _)
Borrow(a, b, i) ==
    IF i = Len(a) THEN 0
    ELSE IF a[i + 1] - b[i + 1] - Borrow(a, b, i + 1) < 0 THEN 1 ELSE 0

MagAdd(a, b) ==
    With(IF Len(a) > Len(b) THEN Len(a) + 1 ELSE Len(b) + 1, LAMBDA n :
    With(<< Pad(a, n), Pad(b, n) >>, LAMBDA p :
    Normal([ i \in 1..n |-> (p[1][i] + p[2][i] + Carry(p[1], p[2], i)) % 10 ])))

\* a - b for magnitudes with b <= a
MagSub(a, b) ==
    With(Pad(b, Len(a)), LAMBDA pb :
    Normal([ i \in 1..Len(a) |-> (a[i] - pb[i] - Borrow(a, pb, i) + 10) % 10 ]))

\* x - y
IntSub(x, y) ==
    IF x.neg # y.neg THEN PyInt(x.neg, MagAdd(x.mag, y.mag))
    ELSE IF MagLess(x.mag, y.mag) THEN PyInt(~x.neg, MagSub(y.mag, x.mag))
    ELSE PyInt(x.neg, MagSub(x.mag, y.mag))

\* 2 * a for a magnitude: a digit carries when it is 5 or more
Double(a) ==
    Normal([ i \in 1..(Len(a) + 1) |->
               ((IF i = 1 THEN 0 ELSE 2 * a[i - 1])
                    + (IF i <= Len(a) /\ a[i] >= 5 THEN 1 ELSE 0)) % 10 ])

\* 2**w
RECURSIVE Doubled(_, _)
Doubled(a, k) == IF Len(a) > 0 /\ k > 0 THEN Doubled(Double(a), k - 1) ELSE a

pow2(w) == PyInt(FALSE, Doubled(<<1>>, w))

\* int(value) for a value that matches the pattern
int(value) ==
    IF value[1] = "-"
    THEN PyInt(TRUE, [ i \in 1..(Len(value) - 1) |-> DigitValue(value[i + 1]) ])
    ELSE PyInt(FALSE, [ i \in DOMAIN value |-> DigitValue(value[i]) ])

\* str(value) for an int
str_int(value) ==
    (IF value.neg THEN <<"-">> ELSE << >>)
        \o [ i \in DOMAIN value.mag |-> DigitChars[value.mag[i] + 1] ]

\* SizedIntTypeInfo.fits(in_value)
fits(info, value) ==
    IF info.signed
    THEN /\ IntLeq(Neg(pow2(info.bit_width - 1)), value)
         /\ IntLeq(value, IntSub(pow2(info.bit_width - 1), NatOf(1)))
    ELSE /\ IntLeq(NatOf(0), value)
         /\ IntLeq(value, IntSub(pow2(info.bit_width), NatOf(1)))

\* SizedIntTypeInfo.convert(in_value)
convert(info, in_value) ==
    With(int(in_value), LAMBDA value :
    IF fits(info, value) THEN in_value
    ELSE IF info.signed /\ IntLeq(value, IntSub(pow2(info.bit_width), NatOf(1)))
    THEN str_int(IntSub(value, pow2(info.bit_width)))
    ELSE in_value)

\* escape_bytestring(s)
RECURSIVE escape_bytestring(_)
escape_bytestring(s) ==
    IF s = << >> THEN << >>
    ELSE (IF Head(s) \in { "\"", "\\" } THEN << "\\", Head(s) >> ELSE << Head(s) >>)
             \o escape_bytestring(Tail(s))

\* map_constant_value(value_type, value): [exc, syntax]
map_constant_value(value_type, value) ==
    IF value_type.target_fundamental = <<"g","b","o","o","l","e","a","n">>
    THEN IF value = <<"f","a","l","s","e">> THEN Syntax(<<"F","A","L","S","E">>)
         ELSE IF value = <<"t","r","u","e">> THEN Syntax(<<"T","R","U","E">>)
         ELSE Failed("MappingError")
    ELSE IF value_type.ctype \in string_ctypes
    THEN Syntax(<<"b">> \o << "\"" >> \o escape_bytestring(value) \o << "\\", "0", "\"" >>)
    ELSE IF InTable(value_type.target_fundamental, sized_int_types)
    THEN IF ~integer_constant_pat(value) THEN Failed("MappingError")
         ELSE Syntax(convert(Lookup(value_type.target_fundamental, sized_int_types), value))
    ELSE IF value_type.target_fundamental \in unsigned_types
    THEN IF ~integer_constant_pat(value) THEN Failed("MappingError")
         ELSE IF ~IntLeq(NatOf(0), int(value))
         THEN Syntax(value \o <<"i","6","4"," ","a","s"," ">> \o value_type.target_fundamental)
         ELSE Syntax(value)
    ELSE Syntax(value)

\* RawMapper.map_constant(constant): [exc, syntax, value], syntax the type's
map_constant(ms, constant) ==
    With(map_constant_value(constant.type, constant.value), LAMBDA value :
    IF value.exc # "" THEN [exc |-> value.exc, syntax |-> None, value |-> None]
    ELSE IF constant.type.ctype \in string_ctypes
    THEN [exc |-> "", syntax |-> <<"&","'","s","t","a","t","i","c"," ","[","u","8","]">>, value |-> value.syntax]
    ELSE With(map_type(ms, constant.type, None, FALSE), LAMBDA type :
         [exc |-> type.exc, syntax |-> type.syntax,
          value |-> IF type.exc = "" THEN value.syntax ELSE None]))

-----------------------------------------------------------------------------
(* The run: grust/genmain.py, grust/generators/sys_crate.py *)

\* Largest number of declarations in the home namespace
MaxDecls == 2

\* The lists of at most n distinct elements of S
RECURSIVE DistinctSeqs(_, _)
DistinctSeqs(S, n) ==
    IF n = 0 THEN { << >> }
    ELSE With(DistinctSeqs(S, n - 1), LAMBDA shorter :
         shorter \cup UNION { { Append(s, x) : x \in S \ Range(s) } :
                                s \in { t \in shorter : Len(t) = n - 1 } })

HomeNamespaces ==
    { [ i \in DOMAIN s |-> Catalogue[s[i]] ] : s \in DistinctSeqs(DOMAIN Catalogue, MaxDecls) }

NodeAt(i) == nodes[i]

\* A call into the mapper, as last records it
NoCall ==
    [op |-> "none", node |-> 0, slot |-> 0, exc |-> "", crates |-> { }, refs |-> { },
     hits |-> 0, syntax |-> None, value |-> None, listing |-> << >>]
ResolveCall(op, i, r) ==
    [NoCall EXCEPT !.op = op, !.node = i, !.exc = r.exc, !.crates = r.crates,
                   !.refs = r.refs, !.hits = r.hits]
MapCall(op, i, j, r) ==
    [NoCall EXCEPT !.op = op, !.node = i, !.slot = j, !.exc = r.exc,
                   !.syntax = r.syntax]
MapConstantCall(i, r) ==
    [NoCall EXCEPT !.op = "map_constant", !.node = i, !.exc = r.exc,
                   !.syntax = r.syntax, !.value = r.value]

ResolveOps == {"resolve_types_for_node", "extract_types"}
MapOps == {"map_parameter_type", "map_return_type", "map_field_type", "map_constant",
           "map_aliased_type", "map_callback"}

\* No file at a path
NoFile == None

\* FileOutput._tempfile before __enter__ has made a temporary file
NoTempfile ==
    [exists |-> FALSE, open |-> FALSE, content |-> << >>, opened_by |-> "none",
     stat |-> "none", before |-> NoFile]

\* The variables of generator_main's output while the writer alone is looked at
OutputIdle ==
    /\ pc = "writer"
    /\ sys_mode = TRUE
    /\ opts_output = None
    /\ python_major = 3
    /\ target_file = NoFile
    /\ tempfile = NoTempfile
    /\ stdout = << >>
    /\ stderr = << >>
    /\ renames = 0
    /\ raised = ""
    /\ cause = ""

\* No call of a module-level function is looked at
CallIdle == call = [fn |-> "none"]

\* No namespace is under construction
AppendIdle == names = << >> /\ appended = << >> /\ fatal = << >>

\* What the steps of the writer leave alone
outsideWriter == << outputVars, callVars, appendVars >>

\* RawMapper.__init__ as SysCrateWriter.__init__ calls it, and the start of
\* Namespace.walk
Init ==
    /\ OutputIdle /\ CallIdle /\ AppendIdle
    /\ nodes \in HomeNamespaces
    /\ phase = "walk"
    /\ walkPos = 1
    /\ crate = create_crate(HomeId, 1).crate
    /\ extern_crates = << >>
    /\ crate_libc = NoCrate
    /\ created = 1
    /\ error_count = 0
    /\ warning_count = 0
    /\ logged = << >>
    /\ status = [ i \in DOMAIN nodes |-> "unseen" ]
    /\ extracted = { }
    /\ map_started = FALSE
    /\ resolved_ns = { }
    /\ libc_hits = 0
    /\ last = NoCall
    /\ exit_code = << >>

\* The mapper's fields after a resolve call r
SetMapper(r) ==
    /\ crate' = r.ms.crate
    /\ extern_crates' = r.ms.extern_crates
    /\ crate_libc' = r.ms.crate_libc
    /\ created' = r.ms.created
    /\ resolved_ns' = resolved_ns \cup r.refs
    /\ libc_hits' = libc_hits + r.hits
    /\ warning_count' = warning_count + r.warns

MapperUnchanged ==
    UNCHANGED << crate, extern_crates, crate_libc, created, resolved_ns, libc_hits,
                 warning_count >>

\* SysCrateWriter._prepare_walk(node, chain): what the except clause does with
\* the exception a resolve call raised: "log" it and return False, or let it
\* "propagate"; "" when nothing was raised (return True)
prepare_walk(exc) ==
    IF exc = "" THEN ""
    ELSE IF exc = "MappingError" THEN "log"
    ELSE "propagate"

\* Namespace.walk: whether the walk goes on to the next declaration after the
\* callback returned (True or False) on this one
walk_continues(handled) == handled \in {"", "log"}

\* What _prepare_walk and the walk make of the result r of the resolve call
\* on the declaration at walkPos.  An exception the callback lets through
\* ends the walk, the constructor and generator_main.
PrepareWalkResult(r) ==
    /\ SetMapper(r)
    /\ last' = ResolveCall("resolve_types_for_node", walkPos, r)
    /\ status' = [status EXCEPT ![walkPos] =
                     IF prepare_walk(r.exc) = "" THEN "resolved"
                     ELSE IF prepare_walk(r.exc) = "log" THEN "error" ELSE "raised"]
    /\ error_count' = IF prepare_walk(r.exc) = "log" THEN error_count + 1
                      ELSE error_count
    /\ logged' = IF prepare_walk(r.exc) = "log" THEN Append(logged, walkPos) ELSE logged
    /\ IF walk_continues(prepare_walk(r.exc))
       THEN /\ walkPos' = walkPos + 1
            /\ UNCHANGED << phase, exit_code >>
       ELSE /\ phase' = "aborted"
            /\ exit_code' = << 1 >>
            /\ UNCHANGED walkPos

\* One step of transformer.namespace.walk(...) in SysCrateWriter.__init__:
\* the callback on the next declaration
PrepareWalk ==
    /\ phase = "walk"
    /\ walkPos <= Len(nodes)
    /\ PrepareWalkResult(resolve_types_for_node(MapperState, NodeAt(walkPos)))
    /\ UNCHANGED << nodes, extracted, map_started >>
    /\ UNCHANGED outsideWriter

\* gen.write(out) entered while the constructor's walk has declarations left
BeginWrite_during_walk ==
    /\ phase = "walk"
    /\ phase' = "render"
    /\ UNCHANGED << nodes, walkPos, error_count, logged, status, extracted,
                    map_started, last, exit_code >>
    /\ MapperUnchanged
    /\ UNCHANGED outsideWriter

\* generator_main after SysCrateWriter(...) has returned: the output is
\* entered and gen.write(out) starts rendering the template
BeginWrite ==
    /\ phase = "walk"
    /\ walkPos > Len(nodes)
    /\ phase' = "render"
    /\ UNCHANGED << nodes, walkPos, error_count, logged, status, extracted,
                    map_started, last, exit_code >>
    /\ MapperUnchanged
    /\ UNCHANGED outsideWriter

\* What a call made by the template leaves of the run: an exception that is
\* not a MappingError leaves the template and gen.write, and generator_main
\* exits with status 1
AfterTemplateCall(exc) ==
    IF exc \in {"", "MappingError"}
    THEN UNCHANGED << phase, exit_code >>
    ELSE phase' = "failed" /\ exit_code' = << 1 >>

MapStep(made) ==
    /\ last' = made
    /\ map_started' = TRUE
    /\ AfterTemplateCall(made.exc)
    /\ MapperUnchanged
    /\ UNCHANGED << nodes, walkPos, error_count, logged, status, extracted >>
    /\ UNCHANGED outsideWriter

\* The template calls mapper.map_parameter_type on a parameter of a callable
MapParameterType ==
    /\ phase = "render"
    /\ \E i \in DOMAIN nodes : \E j \in DOMAIN NodeAt(i).parameters :
           MapStep(MapCall("map_parameter_type", i, j,
                           map_parameter_type(MapperState, NodeAt(i).parameters[j])))

\* The template calls mapper.map_return_type on the return value of a function
MapReturnType ==
    /\ phase = "render"
    /\ \E i \in DOMAIN nodes :
           /\ NodeAt(i).kind = "Function"
           /\ MapStep(MapCall("map_return_type", i, 0,
                              map_return_type(MapperState, NodeAt(i).retval)))

\* The template calls mapper.map_field_type on a field of a compound
MapFieldType ==
    /\ phase = "render"
    /\ \E i \in DOMAIN nodes : \E j \in DOMAIN NodeAt(i).fields :
           MapStep(MapCall("map_field_type", i, j,
                           map_field_type(MapperState, NodeAt(i).fields[j])))

\* The template calls mapper.map_constant on a constant
MapConstant ==
    /\ phase = "render"
    /\ \E i \in DOMAIN nodes :
           /\ NodeAt(i).kind = "Constant"
           /\ MapStep(MapConstantCall(i, map_constant(MapperState, NodeAt(i))))

\* The template calls mapper.map_aliased_type on an alias
MapAliasedType ==
    /\ phase = "render"
    /\ \E i \in DOMAIN nodes :
           /\ NodeAt(i).kind = "Alias"
           /\ MapStep(MapCall("map_aliased_type", i, 0,
                              map_aliased_type(MapperState, NodeAt(i))))

\* The template calls mapper.map_callback on a callback
MapCallback ==
    /\ phase = "render"
    /\ \E i \in DOMAIN nodes :
           /\ NodeAt(i).kind = "Callback"
           /\ MapStep(MapCall("map_callback", i, 0,
                              map_callback(MapperState, NodeAt(i), FALSE)))

\* The template calls mapper.extern_crates()
ExternCrates ==
    /\ phase = "render"
    /\ last' = [NoCall EXCEPT !.op = "extern_crates",
                              !.listing = extern_crates_iter(MapperState)]
    /\ MapperUnchanged
    /\ UNCHANGED << nodes, phase, walkPos, error_count, logged, status, extracted,
                    map_started, exit_code >>
    /\ UNCHANGED outsideWriter

\* node_defines_type(node), and the filter of Module.extract_functions
node_defines_type(node) ==
    node.kind \in {"Alias", "Enum", "Bitfield", "Record", "Union", "Class",
                   "Interface", "Callback"}

\* What the result r of the resolve call on declaration i leaves of the
\* Module and the run
ExtractResult(i, r) ==
    /\ SetMapper(r)
    /\ last' = ResolveCall("extract_types", i, r)
    /\ extracted' = IF r.exc = "" THEN extracted \cup { i } ELSE extracted
    /\ AfterTemplateCall(r.exc)

\* The template has a Module extract a declaration that matches it:
\* Module.extract_types or Module.extract_functions, which resolve the
\* declaration's types again
ExtractTypes ==
    /\ phase = "render"
    /\ \E i \in DOMAIN nodes \ extracted :
           /\ node_defines_type(NodeAt(i)) \/ NodeAt(i).kind = "Function"
           /\ ExtractResult(i, resolve_types_for_node(MapperState, NodeAt(i)))
    /\ UNCHANGED << nodes, walkPos, error_count, logged, status, map_started >>
    /\ UNCHANGED outsideWriter

\* gen.write(out) returns: the rendered text is written, and generator_main
\* ends with status 2 when errors were counted, 0 otherwise
EndWrite ==
    /\ phase = "render"
    /\ phase' = "done"
    /\ exit_code' = IF error_count > 0 THEN << 2 >> ELSE << 0 >>
    /\ MapperUnchanged
    /\ UNCHANGED << nodes, walkPos, error_count, logged, status, extracted,
                    map_started, last >>
    /\ UNCHANGED outsideWriter

Next ==
    \/ PrepareWalk
    \/ BeginWrite
    \/ MapParameterType
    \/ MapReturnType
    \/ MapFieldType
    \/ MapConstant
    \/ MapAliasedType
    \/ MapCallback
    \/ ExternCrates
    \/ ExtractTypes
    \/ EndWrite

Spec == Init /\ [][Next]_vars

-----------------------------------------------------------------------------
(* Properties *)

\* The namespaces that declare the name a qualified name spells out
DenotedNamespaces(giname) ==
    { ns \in DOMAIN Namespaces :
        \E x \in NamesOf(ns) : giname = Namespaces[ns].name \o << "." >> \o x }

\* A descriptor that is a named reference
IsNamed(typedesc) == typedesc.kind = "Type" /\ typedesc.target_giname # None

\* The type containers of a callable's signature, none for other declarations
SignatureSlots(node) ==
    IF node.kind \in {"Function", "Callback"}
    THEN Range(node.parameters) \cup { node.retval }
    ELSE { }

\* A slot of a signature that holds a named reference and whose actual ctype
\* is not a basic FFI type: Pass 1 looks the reference up
LooksUp(slot) ==
    /\ IsNamed(slot.type)
    /\ unwrap_call_signature_ctype(slot).exc = ""
    /\ ~InTable(unwrap_call_signature_ctype(slot).ctype, ffi_basic_types)

\* The named references of a declaration's signature or fields
NamedTypes(node) ==
    { t \in { s.type : s \in SignatureSlots(node) }
              \cup { node.fields[j].type : j \in DOMAIN node.fields } :
        IsNamed(t) }

\* C1 as claimed: the registry has a key for every namespace other than the
\* home one that a named reference of a successfully resolved declaration
\* denotes a declaration of ("a parameter referencing a declaration of an
\* included namespace registers that namespace's Crate").
C1_Original ==
    \A i \in DOMAIN nodes :
        status[i] = "resolved" =>
            \A t \in NamedTypes(nodes[i]) :
                \A ns \in DenotedNamespaces(t.target_giname) \ { HomeId } :
                    Namespaces[ns].name \in RegistryKeys(extern_crates)

\* C1, amended: the keys of the Import Registry are exactly the names of the
\* namespaces, other than the home one, in which a lookup made by Pass 1 found
\* the declaration a reference names; the home namespace is never a key and
\* the home crate is never in a returned set; a parameter that is looked up
\* (its actual ctype is not a basic FFI type) adds nothing when it names a
\* home declaration and registers, and returns, the Crate of the included
\* namespace when it names a declaration of one.
C1_Registry ==
    /\ RegistryKeys(extern_crates) = resolved_ns
    /\ Namespaces[HomeId].name \notin RegistryKeys(extern_crates)
    /\ \A c \in last.crates : c # crate /\ c.namespace # HomeId
    /\ \A i \in DOMAIN nodes : \A slot \in SignatureSlots(nodes[i]) :
           LooksUp(slot) =>
               \A ns \in DenotedNamespaces(slot.type.target_giname) :
                   LET r == resolve_call_signature_type(MapperState, slot) IN
                   IF ns = HomeId
                   THEN r.exc = "" /\ r.crates = { } /\ r.ms = MapperState
                   ELSE /\ r.exc = ""
                        /\ RegistryGet(r.ms.extern_crates, Namespaces[ns].name)
                               .namespace = ns
                        /\ r.crates
                             = { RegistryGet(r.ms.extern_crates, Namespaces[ns].name) }

\* The walk has resolved use_bar: its first parameter names a home
\* declaration, its second one of the included namespace Other
C1_Witness ==
    /\ last.op = "resolve_types_for_node"
    /\ nodes[last.node].name = <<"u","s","e","_","b","a","r">>
    /\ last.exc = ""
    /\ RegistryKeys(extern_crates) = { <<"O","t","h","e","r">> }
    /\ { c.namespace : c \in last.crates } = { 2 }

Qualifier(giname) == IF HasDot(giname) THEN SplitHead(giname) ELSE None

\* The namespace names Pass 2 can look a name up in
KnownQualifiers == { None, Namespaces[HomeId].name } \cup RegistryKeys(extern_crates)

\* The result of the map operation the template has for a slot of a signature
MapSlot(slot) ==
    IF slot.container = "Parameter" THEN map_parameter_type(MapperState, slot)
    ELSE map_return_type(MapperState, slot)

\* The slot of a signature that the latest call mapped, if it mapped one
LastSlot ==
    IF last.op = "map_parameter_type" THEN { nodes[last.node].parameters[last.slot] }
    ELSE IF last.op = "map_return_type" THEN { nodes[last.node].retval }
    ELSE { }

\* C3 as claimed: a Pass 2 mapping of a named reference whose qualifying
\* namespace is neither the home namespace nor a key of the Import Registry
\* aborts with an assertion failure.
C3_Original ==
    \A slot \in LastSlot :
        (IsNamed(slot.type) /\ Qualifier(slot.type.target_giname) \notin KnownQualifiers)
            => last.exc = "AssertionError"

\* The descriptors of a declaration, with the element types of its containers
TypesOf(node) ==
    LET direct == { s.type : s \in SignatureSlots(node) }
                      \cup { node.fields[j].type : j \in DOMAIN node.fields }
                      \cup { node.type }
    IN  direct \cup { t.element_type : t \in { d \in direct : d.kind # "NoType" } }

\* C3, amended: when Pass 2 looks a named reference up (its ctype unwraps
\* and is not a basic FFI type) and the qualifying namespace is neither the
\* home namespace nor a key of the Import Registry, and when Pass 2 maps a
\* fundamental type whose ctype is a libc type while no libc Crate exists,
\* the mapping raises AssertionError; it returns no syntax, and no map
\* operation creates a Crate: the Crates ever created are the home crate, the
\* registry's and the libc one.
C3_Asserts ==
    /\ \A i \in DOMAIN nodes : \A slot \in SignatureSlots(nodes[i]) :
           (LooksUp(slot) /\ Qualifier(slot.type.target_giname) \notin KnownQualifiers)
               => MapSlot(slot) = Failed("AssertionError")
    /\ \A i \in DOMAIN nodes : \A t \in TypesOf(nodes[i]) :
           (/\ t.kind = "Type" /\ t.target_fundamental # None
            /\ InTable(strip_volatile(t.ctype), libc_types)
            /\ crate_libc = NoCrate)
               => map_type(MapperState, t, None, FALSE) = Failed("AssertionError")
    /\ last.op \in MapOps /\ last.exc = "AssertionError" => last.syntax = None
    /\ created = 1 + Len(extern_crates) + (IF crate_libc = NoCrate THEN 0 ELSE 1)

\* map_parameter_type has been called on a parameter that names a namespace
\* that is not registered, and map_field_type on an array of size_t while
\* there is no libc Crate
C3_Witness ==
    /\ last.op \in {"map_parameter_type", "map_field_type"}
    /\ last.exc = "AssertionError"
    /\ \/ /\ last.op = "map_parameter_type"
          /\ LooksUp(nodes[last.node].parameters[last.slot])
          /\ Qualifier(nodes[last.node].parameters[last.slot].type.target_giname)
                 \notin KnownQualifiers
       \/ /\ last.op = "map_field_type"
          /\ nodes[last.node].fields[last.slot].type.element_type.ctype = <<"s","i","z","e","_","t">>
          /\ crate_libc = NoCrate

\* C4: the Import Registry and the libc slot are empty when the mapper is
\* constructed; in every step the registry keeps each of its entries, with
\* the Crate object it had, and the libc slot keeps its Crate once it has
\* one; a step that is a map operation or the enumeration changes neither.
C4_Monotone ==
    /\ extern_crates = << >> /\ crate_libc = NoCrate
    /\ [][ /\ Len(extern_crates') >= Len(extern_crates)
           /\ \A k \in DOMAIN extern_crates : extern_crates'[k] = extern_crates[k]
           /\ \A name \in RegistryKeys(extern_crates) :
                  RegistryGet(extern_crates', name) = RegistryGet(extern_crates, name)
           /\ crate_libc # NoCrate => crate_libc' = crate_libc
           /\ last'.op \in MapOps \cup {"extern_crates"} =>
                  extern_crates' = extern_crates /\ crate_libc' = crate_libc ]_vars

\* A namespace is in the registry, the libc Crate exists, and Module
\* extraction has resolved a reference into the registered namespace again
C4_Witness ==
    /\ last.op = "extract_types"
    /\ last.refs # { }
    /\ crate_libc # NoCrate
    /\ map_started

\* C5: resolving a declaration again, in the state the first resolution left,
\* raises the same exception or returns the same set of Crate objects, and
\* leaves the mapper (registry, libc slot, Crates made) as the first left it;
\* what Module extraction gets for a declaration is what the walk got.
C5_Idempotent ==
    /\ \A i \in DOMAIN nodes :
           LET first == resolve_types_for_node(MapperState, nodes[i])
               second == resolve_types_for_node(first.ms, nodes[i])
           IN  /\ second.exc = first.exc
               /\ second.crates = first.crates
               /\ second.ms = first.ms
    /\ last.op = "extract_types" =>
           /\ status[last.node] = "resolved" => last.exc = ""
           /\ status[last.node] = "error" => last.exc = "MappingError"

\* Module extraction has resolved, a second time, a declaration that needs
\* the libc Crate
C5_Witness ==
    /\ last.op = "extract_types"
    /\ status[last.node] = "resolved"
    /\ last.hits > 0
    /\ crate_libc \in last.crates

\* The ctypes the claim lists as host-platform primitives
HostPlatformCtypes ==
    { <<"s","i","z","e","_","t">>, <<"s","s","i","z","e","_","t">>, <<"t","i","m","e","_","t">>, <<"o","f","f","_","t">>, <<"p","i","d","_","t">>, <<"u","i","d","_","t">>, <<"g","i","d","_","t">>,
      <<"d","e","v","_","t">>, <<"s","o","c","k","l","e","n","_","t">>, <<"l","o","n","g"," ","l","o","n","g">>, <<"u","n","s","i","g","n","e","d"," ","l","o","n","g"," ","l","o","n","g">> }

\* C6: there is no libc Crate until a resolution of a fundamental type whose
\* ctype is a host-platform primitive, that resolution makes it, and every
\* later one returns the same object and makes no Crate: the Crates ever made
\* are the home crate, the registry's and at most one libc Crate.
C6_SingleLibc ==
    /\ [](/\ { e[1] : e \in libc_types } = HostPlatformCtypes
          /\ (crate_libc = NoCrate) <=> (libc_hits = 0)
          /\ crate_libc # NoCrate => crate_libc.name = <<"l","i","b","c">>
          /\ created = 1 + Len(extern_crates) + (IF crate_libc = NoCrate THEN 0 ELSE 1)
          /\ (last.op \in ResolveOps /\ last.hits > 0 /\ last.exc = "")
                 => crate_libc \in last.crates
          /\ \A i \in DOMAIN nodes : \A t \in TypesOf(nodes[i]) :
                 (/\ t.kind = "Type" /\ t.target_fundamental # None
                  /\ strip_volatile(t.ctype) \in HostPlatformCtypes)
                     => LET r == resolve_type(MapperState, t) IN
                        /\ r.exc = ""
                        /\ r.crates = { r.ms.crate_libc }
                        /\ r.ms.crate_libc.name = <<"l","i","b","c">>
                        /\ IF crate_libc = NoCrate
                           THEN r.ms.created = created + 1
                           ELSE r.ms = MapperState)
    /\ [][crate_libc # NoCrate => crate_libc' = crate_libc]_vars

\* Two declarations that need the libc Crate have been resolved
C6_Witness ==
    /\ last.op = "resolve_types_for_node"
    /\ last.node = 2
    /\ last.hits > 0
    /\ libc_hits = 2
    /\ crate_libc \in last.crates

\* The sequence in the opposite order
RECURSIVE Reverse(_)
Reverse(s) == IF s = << >> THEN << >> ELSE Reverse(Tail(s)) \o << Head(s) >>

\* The name and namespace of each Crate of a listing
Described(listing) ==
    [ k \in DOMAIN listing |-> << listing[k].name, listing[k].namespace >> ]

C8_ConsistencyError ==
    (/\ last.op = "resolve_types_for_node"
     /\ nodes[last.node].kind = "Alias"
     /\ IsNamed(nodes[last.node].type)
     /\ Qualifier(nodes[last.node].type.target_giname)
            \notin Namespaces[HomeId].identifier_prefixes
     /\ DenotedNamespaces(nodes[last.node].type.target_giname) = { })
        => /\ last.exc = "ConsistencyError"
           /\ last.crates = { }
           /\ Qualifier(nodes[last.node].type.target_giname)
                  \notin RegistryKeys(extern_crates)

\* C9: a consistency error raised while the walk resolves a declaration is
\* logged against that declaration and counted, and the walk goes on: the
\* run is not aborted.
C9_WalkContinues ==
    (/\ last.op = "resolve_types_for_node"
     /\ last.exc = "ConsistencyError")
        => /\ phase = "walk"
           /\ walkPos = last.node + 1
           /\ status[last.node] = "error"
           /\ logged # << >> /\ logged[Len(logged)] = last.node
           /\ error_count >= 1
           /\ exit_code = << >>

-----------------------------------------------------------------------------
(* Pass 2 on named references and on fixed-size arrays *)

\* The identifier a pointer ctype is built around: the ctype without its
\* pointer marks, its blanks and a leading const
BaseIdent(ctype) ==
    With(SelectSeq(ctype, IsWordChar), LAMBDA word :
    IF startswith(ctype, <<"c","o","n","s","t"," ">>) THEN DropFirst(word, 5) ELSE word)

\* Pointer ctypes around an identifier, with the Rust pointer markers of
\* their layers, outermost first
PointerForms(ident) ==
    { [ctype |-> ident \o <<"*">>, markers |-> <<"*","m","u","t"," ">>],
      [ctype |-> <<"c","o","n","s","t"," ">> \o ident \o <<"*">>, markers |-> <<"*","c","o","n","s","t"," ">>],
      [ctype |-> ident \o <<"*","*">>, markers |-> <<"*","m","u","t"," ","*","m","u","t"," ">>],
      [ctype |-> <<"c","o","n","s","t"," ">> \o ident \o <<"*","*">>, markers |-> <<"*","m","u","t"," ","*","c","o","n","s","t"," ">>] }

\* The path a reference into a namespace is rendered with, given the crate
\* alias of a namespace other than the home one
PathOf(giname, alias) ==
    IF Qualifier(giname) \in { None, Namespaces[HomeId].name } THEN << >>
    ELSE alias \o <<":",":">>

\* The latest call mapped a parameter or return value of a declaration that
\* Pass 1 resolved, and the slot holds a named reference
MappedReference(slot) ==
    /\ status[last.node] = "resolved"
    /\ IsNamed(slot.type)

IsOutParameter(slot) ==
    /\ slot.container = "Parameter"
    /\ slot.direction \in {"out", "inout"}
    /\ ~slot.caller_allocates

\* C16 as stated: with home namespace Foo 1.0 and included namespace Other
\* 1.0, after Pass 1 the parameter of ctype 'const FooBar*' that references
\* Foo.Bar maps to '*const FooBar' and the out-parameter of ctype
\* 'BazObject**' that references Other.Baz maps to
\* '*mut other_1_0_sys::BazObject'; a named reference renders with at most
\* two pointer markers.
C16_Original ==
    \A slot \in LastSlot :
        MappedReference(slot) =>
            /\ slot.type = Named(<<"F","o","o",".","B","a","r">>, <<"c","o","n","s","t"," ","F","o","o","B","a","r","*">>) =>
                   last.exc = "" /\ last.syntax = <<"*","c","o","n","s","t"," ","F","o","o","B","a","r">>
            /\ (slot.type = Named(<<"O","t","h","e","r",".","B","a","z">>, <<"B","a","z","O","b","j","e","c","t","*","*">>) /\ slot.direction = "out") =>
                   last.exc = "" /\ last.syntax = <<"*","m","u","t"," ","o","t","h","e","r","_","1","_","0","_","s","y","s",":",":","B","a","z","O","b","j","e","c","t">>
            /\ last.exc = "" =>
                   Cardinality({ i \in DOMAIN last.syntax : last.syntax[i] = "*" }) <= 2

\* C16: with home namespace Foo 1.0 and included namespace Other 1.0, after
\* Pass 1 the parameter of ctype 'const FooBar*' that references Foo.Bar maps
\* to '*const FooBar' and the out-parameter of ctype 'BazObject**' that
\* references Other.Baz maps to '*mut *mut other::BazObject'.  A named
\* reference that maps, and whose ctype is not a basic FFI type, renders as
\* the identifier of its ctype when it is in the home namespace and as
\* 'alias::identifier' otherwise, alias being the lower-case namespace name,
\* after the pointer markers of the ctype's layers, outermost first; the
\* reference mapping takes at most two layers, and an out-parameter one more
\* before it, which has to be a pointer to a target that is not const.
C16_Rendering ==
    \A slot \in LastSlot :
        MappedReference(slot) =>
            /\ slot.type = Named(<<"F","o","o",".","B","a","r">>, <<"c","o","n","s","t"," ","F","o","o","B","a","r","*">>) =>
                   last.exc = "" /\ last.syntax = <<"*","c","o","n","s","t"," ","F","o","o","B","a","r">>
            /\ (slot.type = Named(<<"O","t","h","e","r",".","B","a","z">>, <<"B","a","z","O","b","j","e","c","t","*","*">>) /\ slot.direction = "out") =>
                   last.exc = "" /\ last.syntax = <<"*","m","u","t"," ","*","m","u","t"," ","o","t","h","e","r",":",":","B","a","z","O","b","j","e","c","t">>
            /\ (last.exc = "" /\ ~InTable(slot.type.ctype, ffi_basic_types)) =>
                   With(BaseIdent(slot.type.ctype), LAMBDA ident :
                   With(PathOf(slot.type.target_giname,
                               lower(Qualifier(slot.type.target_giname))) \o ident,
                        LAMBDA name :
                   /\ \A form \in PointerForms(ident) :
                          MapSlot([slot EXCEPT !.type.ctype = form.ctype])
                              = IF IsOutParameter(slot) /\ form.markers = <<"*","c","o","n","s","t"," ">>
                                THEN Failed("MappingError")
                                ELSE Syntax(form.markers \o name)
                   /\ MapSlot([slot EXCEPT !.type.ctype = ident \o <<"*","*","*">>])
                          = IF IsOutParameter(slot)
                            THEN Syntax(<<"*","m","u","t"," ","*","m","u","t"," ","*","m","u","t"," ">> \o name)
                            ELSE Failed("MappingError")))

\* Both parameters of use_bar have been mapped after Pass 1 resolved it: the
\* latest call mapped the out-parameter that references Other.Baz
C16_Witness ==
    /\ last.op = "map_parameter_type"
    /\ status[last.node] = "resolved"
    /\ nodes[last.node].name = <<"u","s","e","_","b","a","r">>
    /\ last.slot = 2
    /\ last.syntax = <<"*","m","u","t"," ","*","m","u","t"," ","o","t","h","e","r",":",":","B","a","z","O","b","j","e","c","t">>

\* The field the latest call mapped, if its type is a C array descriptor with
\* an explicit element count
LastFixedArray ==
    IF last.op = "map_field_type"
    THEN { f \in { nodes[last.node].fields[last.slot] } :
               f.type.kind = "Array" /\ f.type.array_type = ArrayC /\ f.type.size # NoSize }
    ELSE { }

\* Raw ctype strings an array descriptor may come with
RawCtypes ==
    { <<"g","i","n","t","3","2">>, <<"g","i","n","t","3","2","*">>, <<"g","p","o","i","n","t","e","r">>, <<"c","o","n","s","t"," ","g","c","h","a","r","*">>, <<"s","t","r","u","c","t"," ","_","x">>, <<"F","o","o","B","a","r">>, << >> }

\* '[E; n]' for an array descriptor, E the mapping of its element descriptor;
\* the failure of that mapping when it fails
ArraySyntax(array) ==
    With(map_type(MapperState, array.element_type, None, FALSE), LAMBDA e :
    IF e.exc # "" THEN e
    ELSE Syntax(<<"[">> \o e.syntax \o <<";"," ">> \o str(array.size[1]) \o <<"]">>))

\* The results of mapping the array descriptor with ctype c as the type of a
\* field, of a parameter that is not unwrapped, of a return value and of an
\* alias
MappedAs(field, c) ==
    With([field.type EXCEPT !.ctype = c], LAMBDA array :
    { map_field_type(MapperState, [field EXCEPT !.type = array]),
      map_parameter_type(MapperState, Parameter(<<"p">>, array, "in", FALSE)),
      map_parameter_type(MapperState, Parameter(<<"p">>, array, "out", TRUE)),
      map_return_type(MapperState, Return(array)),
      map_aliased_type(MapperState, Alias(<<"A">>, <<"A">>, array)) })

\* The same for an out-parameter that the caller does not allocate
MappedAsOut(field, c) ==
    map_parameter_type(MapperState,
                       Parameter(<<"p">>, [field.type EXCEPT !.ctype = c], "out", FALSE))

-----------------------------------------------------------------------------
(* Pass 1 against Pass 2 *)

\* The descriptors a declaration holds directly: of its parameters and
\* return value, of its fields, and its alias target or value type
DirectTypes(node) ==
    { s.type : s \in SignatureSlots(node) }
        \cup { node.fields[j].type : j \in DOMAIN node.fields }
        \cup { t \in { node.type } : t.kind # "NoType" }

\* The inner descriptors of a container descriptor: the element descriptor
\* of an array or a list, the key and value descriptors of a map
InnerTypes(typedesc) ==
    IF typedesc.kind \in { "Array", "List" } THEN { typedesc.element_type }
    ELSE IF typedesc.kind = "Map" THEN { typedesc.key_type, typedesc.value_type }
    ELSE { }

\* The included namespaces that a descriptor's named reference denotes a
\* declaration of, by name
ForeignTargets(typedesc) ==
    IF ~IsNamed(typedesc) THEN { }
    ELSE { Namespaces[ns].name :
               ns \in DenotedNamespaces(typedesc.target_giname) \ { HomeId } }

\* C28: once Pass 1 has resolved a declaration, every named reference into
\* an included namespace among the inner descriptors of its containers (the
\* element descriptor of an array or list, the key and value descriptors of
\* a map) has its Crate in the Import Registry; the element descriptor of a
\* fixed-size C array is resolved as declared, whatever the array's ctype.
C28_Containers ==
    \A i \in DOMAIN nodes :
        status[i] = "resolved" =>
            \A t \in DirectTypes(nodes[i]) : \A d \in InnerTypes(t) :
                ForeignTargets(d) \subseteq RegistryKeys(extern_crates)

\* The mapper with a Crate for every namespace, _register_namespace called on
\* each from ns on
RECURSIVE RegisterAll(_, _)
RegisterAll(ms, ns) ==
    IF ns > Len(Namespaces) THEN ms
    ELSE RegisterAll(register_namespace(ms, ns).ms, ns + 1)

\* The mapper as it is, but missing no Crate: every namespace is registered
\* and the libc Crate exists
WithEveryCrate ==
    With(RegisterAll(MapperState, 1), LAMBDA ms :
    IF ms.crate_libc # NoCrate THEN ms
    ELSE [ms EXCEPT !.crate_libc = Crate(<<"l","i","b","c">>, <<"l","i","b","c">>, 0, ms.created + 1).crate,
                    !.created = @ + 1])

\* A map operation that reaches the 'unresolved namespace' assertion or the
\* libc assertion: it fails on an assertion with the mapper as it is (result
\* actual) and does not with the mapper that misses no Crate (result full)
MissesCrate(actual, full) ==
    actual.exc = "AssertionError" /\ full.exc # "AssertionError"

\* The map operation of the template for a slot of a signature, on mapper ms
MapSlotOn(ms, slot) ==
    IF slot.container = "Parameter" THEN map_parameter_type(ms, slot)
    ELSE map_return_type(ms, slot)

\* A declaration one of whose type slots Pass 2 cannot map for want of a Crate
NeedsMissingCrate(node) ==
    \/ \E slot \in SignatureSlots(node) :
           MissesCrate(MapSlotOn(MapperState, slot), MapSlotOn(WithEveryCrate, slot))
    \/ \E j \in DOMAIN node.fields :
           MissesCrate(map_field_type(MapperState, node.fields[j]),
                       map_field_type(WithEveryCrate, node.fields[j]))
    \/ /\ node.kind = "Alias"
       /\ MissesCrate(map_aliased_type(MapperState, node),
                      map_aliased_type(WithEveryCrate, node))
    \/ /\ node.kind = "Constant"
       /\ MissesCrate(map_constant(MapperState, node),
                      map_constant(WithEveryCrate, node))

\* C29: Pass 1 is sufficient for Pass 2: for a declaration that
\* resolve_types_for_node has resolved without error, no map operation on one
\* of its type slots (field, parameter, return, constant or alias target)
\* reaches the 'unresolved namespace' assertion or the libc assertion, that
\* is, fails on an assertion that it would not fail on if every Crate had
\* been registered.
C29_Sufficient ==
    \A i \in DOMAIN nodes :
        status[i] = "resolved" => ~NeedsMissingCrate(nodes[i])

\* C30: a failed resolution leaves no trace: when the walk's call of
\* resolve_types_for_node raises MappingError or ConsistencyError (the step
\* that marks the declaration as dropped), the Import Registry and the libc
\* slot are after the call exactly as they were before it.
C30_NoTrace ==
    [][(/\ status' # status
        /\ last'.op = "resolve_types_for_node"
        /\ last'.exc \in {"MappingError", "ConsistencyError"})
           => /\ extern_crates' = extern_crates
              /\ crate_libc' = crate_libc]_vars
-----------------------------------------------------------------------------
(* The run and its output: grust/genmain.py, grust/output.py.  The writer's  *)
(* construction and its rendering are taken by their outcomes here: they     *)
(* raise, or they leave counts of logged errors and warnings.                *)

\* Largest number of errors, and of warnings, the log counts in a run
MaxErrors == 2
MaxWarnings == 1

\* The process's exit status: sys.exit(<a message>), an exception nobody
\* catches, SystemExit(1), SystemExit(2), and generator_main's return 0
mode_exit_status == 1
exception_exit_status == 1
render_exit_status == 1
errors_exit_status == 2
success_exit_status == 0

\* The exit status by the reason the process ends for
exit_status(why) ==
    IF why = "unsupported mode" THEN mode_exit_status
    ELSE IF why = "exception" THEN exception_exit_status
    ELSE IF why = "render exception" THEN render_exit_status
    ELSE IF why = "errors" THEN errors_exit_status
    ELSE success_exit_status

\* What gen.write(out) writes: the template's rendering
RenderedText == <<"e","x","t","e","r","n"," ","c","r","a","t","e">>

\* '{:d} error(s), {:d} warning(s)'.format(error_count, warning_count)
summary(errors, warnings) ==
    str(errors) \o <<" ","e","r","r","o","r","(","s",")",","," ">> \o str(warnings) \o <<" ","w","a","r","n","i","n","g","(","s",")">>

\* output_file(name): the class of the context manager it makes
output_file(name) == IF name = <<"-">> THEN "DirectOutput" ELSE "FileOutput"

\* generator_main's output: opts.output, output_file('lib.rs') without -o
Output == IF opts_output = None THEN output_file(<<"l","i","b",".","r","s">>) ELSE output_file(opts_output)

\* The variables of the writer, which this part of the run does not look into
WriterIdle ==
    /\ nodes = << >>
    /\ phase = "idle"
    /\ walkPos = 1
    /\ crate = NoCrate
    /\ extern_crates = << >>
    /\ crate_libc = NoCrate
    /\ created = 0
    /\ logged = << >>
    /\ status = << >>
    /\ extracted = { }
    /\ map_started = FALSE
    /\ resolved_ns = { }
    /\ libc_hits = 0
    /\ last = NoCall

\* generator_main is entered
InitMain ==
    /\ WriterIdle /\ CallIdle /\ AppendIdle
    /\ pc = "start"
    /\ sys_mode \in BOOLEAN
    /\ opts_output \in { None, <<"-">>, <<"o","u","t",".","r","s">> }
    /\ python_major \in { 2, 3 }
    /\ target_file \in { NoFile, <<"o","l","d">> }
    /\ tempfile = NoTempfile
    /\ stdout = << >>
    /\ stderr = << >>
    /\ renames = 0
    /\ raised = ""
    /\ cause = ""
    /\ error_count = 0
    /\ warning_count = 0
    /\ exit_code = << >>

\* What generator_main's steps leave alone
outsideMain == << mapperVars, callVars, appendVars >>

\* The process ends with an exception nobody catches, or with sys.exit
Exits(why) ==
    /\ pc' = "exited"
    /\ cause' = why
    /\ exit_code' = << exit_status(why) >>

\* generator_main: the arguments are parsed; without --sys the process exits
\* with a message
ParseArgs ==
    /\ pc = "start"
    /\ IF ~sys_mode
       THEN /\ stderr' = Append(stderr, <<"o","n","l","y"," ","-","-","s","y","s"," ","m","o","d","e"," ","i","s"," ","c","u","r","r","e","n","t","l","y"," ","s","u","p","p","o","r","t","e","d">>)
            /\ Exits("unsupported mode")
       ELSE /\ pc' = "load"
            /\ UNCHANGED << stderr, cause, exit_code >>
    /\ UNCHANGED << sys_mode, opts_output, python_major, target_file, tempfile, stdout,
                    renames, raised, error_count, warning_count >>
    /\ UNCHANGED outsideMain

\* generator_main: Transformer.parse_from_gir and SysCrateWriter(...), whose
\* walk logs errors and warnings; an exception of either ends the process
Construct ==
    /\ pc = "load"
    /\ \/ /\ Exits("exception")
          /\ UNCHANGED << error_count, warning_count >>
       \/ /\ \E errors \in 0 .. MaxErrors, warnings \in 0 .. MaxWarnings :
                 /\ error_count' = errors
                 /\ warning_count' = warnings
          /\ pc' = "with"
          /\ UNCHANGED << cause, exit_code >>
    /\ UNCHANGED << sys_mode, opts_output, python_major, target_file, tempfile, stdout,
                    stderr, renames, raised >>
    /\ UNCHANGED outsideMain

\* FileOutput.__enter__ that leaves the temporary file where copystat / chmod
\* raised
FileOutput_enter_leaves_tempfile(prepared) ==
    [exists |-> TRUE,
     open |-> prepared,
     content |-> << >>,
     opened_by |-> IF python_major >= 3 THEN "NamedTemporaryFile" ELSE "io.open",
     stat |-> IF ~prepared THEN "none"
              ELSE IF target_file # NoFile THEN "copystat" ELSE "chmod",
     before |-> target_file]

\* FileOutput.__enter__ when copystat / chmod went through (prepared) or
\* raised: the temporary file it leaves
FileOutput_enter(prepared) ==
    [exists |-> prepared,
     open |-> prepared,
     content |-> << >>,
     opened_by |-> IF python_major >= 3 THEN "NamedTemporaryFile" ELSE "io.open",
     stat |-> IF ~prepared THEN "none"
              ELSE IF target_file # NoFile THEN "copystat" ELSE "chmod",
     before |-> target_file]

\* "with output as out": DirectOutput.__enter__ gives the stream,
\* FileOutput.__enter__ a new temporary file next to the target
EnterOutput ==
    /\ pc = "with"
    /\ IF Output = "DirectOutput"
       THEN /\ pc' = "body"
            /\ UNCHANGED << tempfile, cause, exit_code >>
       ELSE \E prepared \in BOOLEAN :
                /\ tempfile' = FileOutput_enter(prepared)
                /\ IF prepared
                   THEN pc' = "body" /\ UNCHANGED << cause, exit_code >>
                   ELSE Exits("exception")
    /\ UNCHANGED << sys_mode, opts_output, python_major, target_file, stdout, stderr,
                    renames, raised, error_count, warning_count >>
    /\ UNCHANGED outsideMain

\* out.write(result) of SysCrateWriter.write
Written ==
    IF Output = "DirectOutput"
    THEN stdout' = stdout \o RenderedText /\ UNCHANGED tempfile
    ELSE tempfile' = [tempfile EXCEPT !.content = @ \o RenderedText] /\ UNCHANGED stdout

\* The body of the with statement: gen.write(out), which renders the
\* template and writes the result, then the summary and SystemExit(2) when
\* errors were counted; an exception of gen.write becomes SystemExit(1)
WriteBody ==
    /\ pc = "body"
    /\ \/ /\ stderr' = Append(stderr, <<"T","r","a","c","e","b","a","c","k">>)
          /\ raised' = "SystemExit"
          /\ cause' = "render exception"
          /\ UNCHANGED << stdout, tempfile >>
       \/ /\ Written
          /\ stderr' = IF error_count > 0 \/ warning_count > 0
                       THEN Append(stderr, summary(error_count, warning_count))
                       ELSE stderr
          /\ raised' = IF error_count > 0 THEN "SystemExit" ELSE ""
          /\ cause' = IF error_count > 0 THEN "errors" ELSE cause
    /\ pc' = "exit"
    /\ UNCHANGED << sys_mode, opts_output, python_major, target_file, renames,
                    error_count, warning_count, exit_code >>
    /\ UNCHANGED outsideMain

\* FileOutput.__exit__ that renames the temporary file whatever happened
FileOutput_exit_always_renames(exception_type) ==
    /\ tempfile' = [tempfile EXCEPT !.open = FALSE, !.exists = FALSE]
    /\ target_file' = tempfile.content
    /\ renames' = renames + 1

\* FileOutput.__exit__(exception_type, exception, traceback)
FileOutput_exit(exception_type) ==
    /\ tempfile' = [tempfile EXCEPT !.open = FALSE, !.exists = FALSE]
    /\ IF exception_type # ""
       THEN UNCHANGED << target_file, renames >>
       ELSE /\ target_file' = tempfile.content
            /\ renames' = renames + 1

\* The with statement is left: the context manager's __exit__, which lets
\* the exception through, and generator_main's return 0
ExitOutput ==
    /\ pc = "exit"
    /\ IF Output = "DirectOutput"
       THEN UNCHANGED << tempfile, target_file, renames >>
       ELSE FileOutput_exit(raised)
    /\ Exits(IF raised # "" THEN cause ELSE "finished")
    /\ UNCHANGED << sys_mode, opts_output, python_major, stdout, stderr, raised,
                    error_count, warning_count >>
    /\ UNCHANGED outsideMain

NextMain ==
    \/ ParseArgs
    \/ Construct
    \/ EnterOutput
    \/ WriteBody
    \/ ExitOutput

SpecMain == InitMain /\ [][NextMain]_vars

\* C11 as claimed: when a run ends with errors counted and no fatal error,
\* the output destination, standard output or the named file, holds the
\* rendered output, and the summary of the counts is on stderr.
C11_Original ==
    (pc = "exited" /\ cause = "errors") =>
        /\ Output = "DirectOutput" => stdout = RenderedText
        /\ Output = "FileOutput" => target_file = RenderedText
        /\ summary(error_count, warning_count) \in Range(stderr)

\* C11, amended: when a run ends with errors counted and no fatal error, the
\* template has been rendered in full and the summary of the counts is on
\* stderr; standard output, when it is the destination, holds the rendered
\* output; a named output file is left as it was before the run, the
\* rendered output being deleted with the temporary file it was written to.
C11_ErrorsDiscardFile ==
    (pc = "exited" /\ cause = "errors") =>
        /\ error_count > 0
        /\ exit_code = << errors_exit_status >>
        /\ summary(error_count, warning_count) \in Range(stderr)
        /\ Output = "DirectOutput" => stdout = RenderedText
        /\ Output = "FileOutput" =>
               /\ tempfile.content = RenderedText
               /\ ~tempfile.exists
               /\ target_file = tempfile.before
               /\ target_file # RenderedText
               /\ renames = 0

\* A run with -o out.rs over an existing file has ended with two errors
C11_Witness ==
    /\ pc = "exited" /\ cause = "errors"
    /\ opts_output = <<"o","u","t",".","r","s">>
    /\ error_count = 2
    /\ tempfile.content = RenderedText
    /\ target_file = <<"o","l","d">>

\* The reasons the claim lists for a run to fail
FailureOutcomes == { "unsupported mode", "render exception", "errors" }

\* C12: the exit status is 0 only when the run ended with no error and no
\* warning counted, and the three failure outcomes (unsupported mode, an
\* exception of the rendering, declarations dropped for errors) have nonzero
\* statuses that differ from one another.
C12_ExitCodes ==
    pc = "exited" =>
        /\ exit_code = << 0 >> => (error_count = 0 /\ warning_count = 0)
        /\ cause \in FailureOutcomes =>
               /\ exit_code # << 0 >>
               /\ \A other \in FailureOutcomes \ { cause } :
                      exit_code # << exit_status(other) >>

\* C13: a FileOutput context that is left without an exception leaves at the
\* target path exactly what was written to the temporary file, by one
\* rename; one that is left with an exception, or whose entry failed while
\* the permissions were prepared, leaves the target as it was on entry; the
\* target never holds anything but what it held on entry or the complete,
\* closed temporary file, and no temporary file exists after the exit.
C13_Atomic ==
    tempfile # NoTempfile =>
        /\ (pc = "exited" /\ cause = "finished") =>
               /\ target_file = tempfile.content
               /\ tempfile.content = RenderedText
               /\ renames = 1
        /\ (pc = "exited" /\ cause # "finished") =>
               /\ target_file = tempfile.before
               /\ renames = 0
        /\ pc = "exited" => ~tempfile.exists /\ ~tempfile.open
        /\ pc # "exited" => target_file = tempfile.before /\ renames = 0
        /\ target_file # tempfile.before =>
               /\ ~tempfile.open
               /\ raised = ""
               /\ target_file = tempfile.content

\* A context over an existing file has been left without an exception, and
\* the file replaced
C13_Witness ==
    /\ pc = "exited" /\ cause = "finished"
    /\ tempfile # NoTempfile
    /\ tempfile.before = <<"o","l","d">>
    /\ tempfile.stat = "copystat"
    /\ target_file = RenderedText
    /\ warning_count = 1

-----------------------------------------------------------------------------
(* grust/mapping.py: sys_crate_name, Crate and map_constant_value called on
   their own.  call is the call made last, with its arguments and outcome. *)

\* Longest namespace name and version drawn
MaxNameLen == 2
\* Literals are drawn this close to the limits of the integer types
MaxOffset == 1

NameChars == { "G", "g", "3", "_" }
VersionChars == { "3", "." }
Strings(chars, n) == UNION { [ 1..k -> chars ] : k \in 1..n }

\* name and version attributes of the namespace element of a GIR
NamespaceNames == Strings(NameChars, MaxNameLen) \cup { <<"G","L","i","b">> }
NamespaceVersions == Strings(VersionChars, MaxNameLen) \cup { <<"2",".","0">> }

\* Fundamental types of a constant element
ConstantTypes ==
    { e[1] : e \in sized_int_types } \cup { <<"g","u","l","o","n","g">>, <<"g","u","i","n","t">>, <<"g","i","n","t">>, <<"g","s","i","z","e">> }

\* value attributes of a constant element: the limits -2**w, -2**(w-1), 0,
\* 2**(w-1), 2**w of the integer types and their neighbours, and one value
\* that is not decimal
Limits ==
    { NatOf(0) } \cup UNION { { pow2(e[2].bit_width), Neg(pow2(e[2].bit_width)),
                                pow2(e[2].bit_width - 1), Neg(pow2(e[2].bit_width - 1)) } :
                              e \in sized_int_types }
Literals ==
    { str_int(IF d < 0 THEN IntSub(b, NatOf(0 - d)) ELSE IntSub(b, Neg(NatOf(d)))) :
          b \in Limits, d \in (0 - MaxOffset) .. MaxOffset } \cup { <<"0","x","1","F">> }

\* C types given to _unwrap_pointer_ctype, with T for the type pointed to:
\* what the text is a pointer to, and whether through a const form ('T const
\* *', 'const T *'), a bare form ('T *'), or not at all
PointerCases ==
    { [ctype |-> <<"T"," ","c","o","n","s","t"," ","*">>, form |-> "const", target |-> <<"T">>],
      [ctype |-> <<"T"," ","c","o","n","s","t","*">>, form |-> "const", target |-> <<"T">>],
      [ctype |-> <<"c","o","n","s","t"," ","T"," ","*">>, form |-> "const", target |-> <<"T">>],
      [ctype |-> <<"c","o","n","s","t"," ","T","*">>, form |-> "const", target |-> <<"T">>],
      [ctype |-> <<"T","*"," ","c","o","n","s","t"," ","*">>, form |-> "const", target |-> <<"T","*">>],
      [ctype |-> <<"T"," ","*">>, form |-> "bare", target |-> <<"T">>],
      [ctype |-> <<"T","*">>, form |-> "bare", target |-> <<"T">>],
      [ctype |-> <<"T","*","*">>, form |-> "bare", target |-> <<"T","*">>],
      [ctype |-> <<"c","o","n","s","t"," ","T","*","*">>, form |-> "bare", target |-> <<"c","o","n","s","t"," ","T","*">>],
      [ctype |-> <<"T">>, form |-> "none", target |-> None],
      [ctype |-> <<"c","o","n","s","t"," ","T">>, form |-> "none", target |-> None],
      [ctype |-> <<"T"," ","c","o","n","s","t">>, form |-> "none", target |-> None],
      [ctype |-> <<"*">>, form |-> "none", target |-> None] }

\* A call of _unwrap_pointer_ctype, and of _unwrap_call_signature_ctype on a
\* parameter with that C type, about to be made
Unwrapping(case, allow_const) ==
    [fn |-> "unwrap_pointer_ctype", done |-> FALSE, case |-> case,
     allow_const |-> allow_const, prefix |-> << >>, result |-> << >>, exc |-> ""]
UnwrappingSignature(case, direction, caller_allocates) ==
    [fn |-> "unwrap_call_signature_ctype", done |-> FALSE, case |-> case,
     direction |-> direction, caller_allocates |-> caller_allocates,
     prefix |-> << >>, result |-> << >>, exc |-> ""]

outsideCalls == << mapperVars, logVars, outputVars, appendVars >>

\* A call about to be made, with its arguments
Calling(fn, name, version, value_type, value) ==
    [fn |-> fn, done |-> FALSE, name |-> name, version |-> version,
     value_type |-> value_type, value |-> value, result |-> << >>, exc |-> ""]

InitCalls ==
    /\ WriterIdle /\ OutputIdle /\ AppendIdle
    /\ error_count = 0
    /\ warning_count = 0
    /\ exit_code = << >>
    /\ call \in { Calling("sys_crate_name", name, version, << >>, << >>) :
                      name \in NamespaceNames, version \in NamespaceVersions }
                \cup { Calling("map_constant_value", << >>, << >>, t, value) :
                           t \in ConstantTypes, value \in Literals }
                \cup { Unwrapping(case, allow_const) :
                           case \in PointerCases, allow_const \in BOOLEAN }
                \cup { UnwrappingSignature(case, direction, caller_allocates) :
                           case \in PointerCases, direction \in { "in", "out", "inout" },
                           caller_allocates \in BOOLEAN }

\* sys_crate_name(namespace), and Crate(name) of the result
SysCrateName ==
    /\ call.fn = "sys_crate_name" /\ ~call.done
    /\ With(sys_crate_name([name |-> call.name, version |-> call.version]), LAMBDA result :
       call' = [call EXCEPT !.done = TRUE, !.result = result,
                            !.exc = Crate(result, result, 0, 0).exc])
    /\ UNCHANGED outsideCalls

\* map_constant_value(value_type, value)
MapConstantValue ==
    /\ call.fn = "map_constant_value" /\ ~call.done
    /\ With(map_constant_value(Fundamental(call.value_type, call.value_type), call.value),
            LAMBDA r :
       call' = [call EXCEPT !.done = TRUE, !.result = r.syntax, !.exc = r.exc])
    /\ UNCHANGED outsideCalls

\* What an unwrap function gave
Unwrapped(u) ==
    /\ call' = [call EXCEPT !.done = TRUE, !.prefix = u.prefix, !.result = u.ctype,
                            !.exc = u.exc]
    /\ UNCHANGED outsideCalls

\* _unwrap_pointer_ctype(ctype, allow_const)
UnwrapPointerCtype ==
    /\ call.fn = "unwrap_pointer_ctype" /\ ~call.done
    /\ Unwrapped(unwrap_pointer_ctype(call.case.ctype, call.allow_const))

\* _unwrap_call_signature_ctype(parameter)
UnwrapCallSignatureCtype ==
    /\ call.fn = "unwrap_call_signature_ctype" /\ ~call.done
    /\ Unwrapped(unwrap_call_signature_ctype(
                     Parameter(<<"p">>, Untyped(call.case.ctype), call.direction,
                               call.caller_allocates)))

NextCalls ==
    \/ SysCrateName
    \/ MapConstantValue
    \/ UnwrapPointerCtype
    \/ UnwrapCallSignatureCtype

SpecCalls == InitCalls /\ [][NextCalls]_vars

\* The text with each character that is not a letter or a digit replaced
\* with '_', and each letter in lower case
Sanitized(text) ==
    [ i \in DOMAIN text |->
        IF IsAlpha(text[i]) \/ IsDigit(text[i]) THEN LowerChar(text[i]) ELSE "_" ]

CrateNamed == call.fn = "sys_crate_name" /\ call.done

Homonyms ==
    { p \in NamespaceNames \X NamespaceVersions :
          /\ p # << call.name, call.version >>
          /\ sys_crate_name([name |-> p[1], version |-> p[2]]) = call.result }

Alphanumeric(text) == \A i \in DOMAIN text : IsAlpha(text[i]) \/ IsDigit(text[i])

ConstantMapped == call.fn = "map_constant_value" /\ call.done

\* a magnitude is a multiple of 2**w
RECURSIVE Multiple(_, _)
Multiple(a, w) ==
    IF w = 0 THEN TRUE
    ELSE /\ a[Len(a)] % 2 = 0
         /\ Multiple(Normal([ i \in DOMAIN a |->
                                ((IF i = 1 THEN 0 ELSE a[i - 1] % 2) * 10 + a[i]) \div 2 ]),
                     w - 1)

\* x and y are congruent modulo 2**w
Congruent(x, y, w) == Multiple(IntSub(x, y).mag, w)

\* C18: a decimal literal for a constant of a sized integer type is rendered
\* unchanged when its value fits the type ('255' for gint8 is rendered '-1');
\* a rendered literal that differs from the given one is congruent to it
\* modulo 2**w and fits the type.
C18_SizedInt ==
    (/\ ConstantMapped
     /\ InTable(call.value_type, sized_int_types)
     /\ integer_constant_pat(call.value)) =>
        With(Lookup(call.value_type, sized_int_types), LAMBDA info :
        /\ call.exc = ""
        /\ fits(info, int(call.value)) => call.result = call.value
        /\ (call.value_type = <<"g","i","n","t","8">> /\ call.value = <<"2","5","5">>) => call.result = <<"-","1">>
        /\ call.result # call.value =>
               /\ integer_constant_pat(call.result)
               /\ Congruent(int(call.result), int(call.value), info.bit_width)
               /\ fits(info, int(call.result)))

\* C19: a negative decimal literal for a constant of an unsigned integer
\* type is rendered '<value>i64 as <type>', never as the bare literal.
C19_NegativeUnsigned ==
    (/\ ConstantMapped
     /\ call.value_type \in unsigned_types
     /\ integer_constant_pat(call.value)
     /\ ~IntLeq(NatOf(0), int(call.value))) =>
        /\ call.exc = ""
        /\ call.result # call.value
        /\ call.result = call.value \o <<"i","6","4"," ","a","s"," ">> \o call.value_type

\* C27: _unwrap_pointer_ctype takes one pointer layer off the C type: it
\* returns '*const ' and the type pointed to for the forms 'T const *' and
\* 'const T *', '*mut ' and the type pointed to for a bare 'T *'; it raises
\* MappingError when the C type has no pointer layer, and when allow_const
\* is false and the pointer layer is of a const form, so that an out or
\* inout parameter that the caller does not allocate and that is declared
\* with a const pointer such as 'const T *' is rejected, not unwrapped.
C27_Unwrap ==
    /\ (call.fn = "unwrap_pointer_ctype" /\ call.done) =>
           IF call.case.form = "none" \/ (call.case.form = "const" /\ ~call.allow_const)
           THEN call.exc = "MappingError"
           ELSE /\ call.exc = ""
                /\ call.prefix = IF call.case.form = "const" THEN <<"*","c","o","n","s","t"," ">> ELSE <<"*","m","u","t"," ">>
                /\ call.result = call.case.target
    /\ (call.fn = "unwrap_call_signature_ctype" /\ call.done
          /\ call.direction \in { "out", "inout" } /\ ~call.caller_allocates
          /\ call.case.form = "const") =>
           call.exc = "MappingError"

-----------------------------------------------------------------------------
(* grust/giscanner/transformer.py: Transformer._append_new_node.  names is
   the namespace under construction (the registered declarations, in the
   order they were added), appended the declarations _append_new_node was
   called with, fatal what message.fatal was called with. *)

\* Most calls of _append_new_node in a run
MaxAppends == 3

\* The declarations of a scan.  A declaration is an object: its position in
\* this table is its identity.
Declarations ==
    << [name |-> <<"A">>, kind |-> "Constant", file_positions |-> { <<"a",".","h",":","1">> }],
       [name |-> <<"A">>, kind |-> "Constant", file_positions |-> { <<"a",".","h",":","5">>, <<"b",".","h",":","2">> }],
       [name |-> <<"A">>, kind |-> "Record", file_positions |-> { <<"a",".","h",":","9">> }],
       [name |-> <<"B">>, kind |-> "Record", file_positions |-> { <<"b",".","h",":","1">> }],
       [name |-> <<"B">>, kind |-> "Function", file_positions |-> { <<"b",".","h",":","7">> }] >>

\* Namespace.get(name): the registered declaration of that name, 0 for None
Namespace_get(registered, name) ==
    IF \E i \in DOMAIN registered : Declarations[registered[i]].name = name
    THEN registered[CHOOSE i \in DOMAIN registered :
                        Declarations[registered[i]].name = name]
    ELSE 0

\* Namespace.append(node)
Namespace_append(registered, node) == Append(registered, node)

\* message.fatal(text, positions): the message logged; the run ends
Fatal(name, positions) ==
    << [text |-> <<"N","a","m","e","s","p","a","c","e"," ","c","o","n","f","l","i","c","t"," ","f","o","r"," ","'">> \o name \o <<"'">>, positions |-> positions] >>

\* _append_new_node that appends whenever the two are not both Constants
append_new_node_unchecked(registered, node) ==
    With(Namespace_get(registered, Declarations[node].name), LAMBDA original :
    IF original # 0 /\ Declarations[original].kind = "Constant"
                    /\ Declarations[node].kind = "Constant"
    THEN [names |-> registered, fatal |-> << >>]
    ELSE [names |-> Namespace_append(SelectSeq(registered, LAMBDA r : r # original), node),
          fatal |-> << >>])

\* Transformer._append_new_node(node): [names, fatal]
append_new_node(registered, node) ==
    With(Namespace_get(registered, Declarations[node].name), LAMBDA original :
    IF original # 0 /\ Declarations[original].kind = "Constant"
                    /\ Declarations[node].kind = "Constant"
    THEN [names |-> registered, fatal |-> << >>]
    ELSE IF original = node
    THEN [names |-> registered, fatal |-> << >>]
    ELSE IF original # 0
    THEN [names |-> registered,
          fatal |-> Fatal(Declarations[node].name,
                          Declarations[original].file_positions
                              \cup Declarations[node].file_positions)]
    ELSE [names |-> Namespace_append(registered, node), fatal |-> << >>])

outsideAppend == << mapperVars, logVars, outputVars, callVars >>

InitAppend ==
    /\ WriterIdle /\ OutputIdle /\ CallIdle /\ AppendIdle
    /\ error_count = 0
    /\ warning_count = 0
    /\ exit_code = << >>

\* A call of _append_new_node; none after message.fatal has ended the run
AppendNewNode ==
    /\ fatal = << >>
    /\ Len(appended) < MaxAppends
    /\ \E node \in DOMAIN Declarations :
           With(append_new_node(names, node), LAMBDA r :
           /\ names' = r.names
           /\ fatal' = r.fatal
           /\ appended' = Append(appended, node))
    /\ UNCHANGED outsideAppend

NextAppend == AppendNewNode

SpecAppend == InitAppend /\ [][NextAppend]_vars

\* The first declaration of a name that _append_new_node was called with
FirstAppended(name) ==
    appended[CHOOSE k \in DOMAIN appended :
                 /\ Declarations[appended[k]].name = name
                 /\ \A j \in 1..(k - 1) : Declarations[appended[j]].name # name]

\* The k-th call was given a declaration whose name was registered for
\* another declaration, and the two are not both Constants
Conflicts(k) ==
    With(Declarations[appended[k]], LAMBDA node :
    /\ \E j \in 1..(k - 1) : Declarations[appended[j]].name = node.name
    /\ FirstAppended(node.name) # appended[k]
    /\ ~(node.kind = "Constant" /\ Declarations[FirstAppended(node.name)].kind = "Constant"))

\* C20: _append_new_node never replaces a registered declaration: the
\* namespace holds, for each name it was called with, the first declaration
\* of that name and no other, in the order they were added; a call with the
\* registered object itself, or with a Constant for a name registered for a
\* Constant, leaves the namespace as it is; any other call with a registered
\* name is a fatal 'Namespace conflict' error that names the positions of
\* both declarations.
C20_Append ==
    /\ \A i \in DOMAIN names : names[i] = FirstAppended(Declarations[names[i]].name)
    /\ \A i, j \in DOMAIN names :
           Declarations[names[i]].name = Declarations[names[j]].name => i = j
    /\ \A k \in DOMAIN appended :
           \E i \in DOMAIN names :
               Declarations[names[i]].name = Declarations[appended[k]].name
    /\ \A i, j \in DOMAIN names :
           i < j => \E k, l \in DOMAIN appended :
                        k < l /\ appended[k] = names[i] /\ appended[l] = names[j]
    /\ \A k \in DOMAIN appended : Conflicts(k) <=> (k = Len(appended) /\ fatal # << >>)
    /\ fatal # << >> =>
           With(Declarations[appended[Len(appended)]], LAMBDA node :
           fatal = << [text |-> <<"N","a","m","e","s","p","a","c","e"," ","c","o","n","f","l","i","c","t"," ","f","o","r"," ","'">> \o node.name \o <<"'">>,
                       positions |-> node.file_positions
                           \cup Declarations[FirstAppended(node.name)].file_positions] >>)

\* A Constant has been added, added again as the same object and as another
\* Constant of its name, and the namespace holds the first
C20_Witness ==
    /\ appended = << 2, 2, 1 >>
    /\ names = << 2 >>
    /\ fatal = << >>

\* A Record has been given for the name of a registered Constant
C20_ConflictWitness ==
    /\ appended = << 1, 4, 3 >>
    /\ names = << 1, 4 >>
    /\ fatal # << >>
    /\ fatal[1].positions = { <<"a",".","h",":","1">>, <<"a",".","h",":","9">> }

-----------------------------------------------------------------------------
(* grust/giscanner/transformer.py: the lookups of a Transformer, called on
   their own.  call is the call being made, with its arguments and outcome. *)

\* GINames given to lookup_giname
LookupNames ==
    { <<"B","a","r">>, <<"N","o","p","e">>, <<"F","o","o",".","B","a","r">>, <<"F","o","o",".","N","o","p","e">>, <<"O","t","h","e","r",".","B","a","z">>, <<"O","t","h","e","r",".","N","o","p","e">>,
      <<"O","t","h","e","r",".","B","a","z",".","x">>, <<"O","T","H","E","R",".","Q","u","x">>, <<"G","L","i","b",".","L","i","s","t">>, <<"F",".","B","a","r">>, <<"F",".","N","o","p","e">>,
      <<"M","i","s","s","i","n","g",".","T","h","i","n","g">>, <<"o","t","h","e","r",".","B","a","z">>, <<".","B","a","r">> }

\* Home namespaces of a scan: a record and a chain of three aliases that ends
\* in a fundamental type; an alias of itself; two aliases of each other;
\* aliases of a declaration of an included namespace, of a namespace that was
\* not parsed, of a name that is not declared and of a type with no target
ScanHomes ==
    { << >>,
      << Record(<<"B","a","r">>, <<"F","o","o","B","a","r">>, << >>),
         Alias(<<"A","1">>, <<"F","o","o","A","1">>, Named(<<"F","o","o",".","A","2">>, <<"F","o","o","A","2">>)),
         Alias(<<"A","2">>, <<"F","o","o","A","2">>, Named(<<"A","3">>, <<"F","o","o","A","3">>)),
         Alias(<<"A","3">>, <<"F","o","o","A","3">>, Fundamental(<<"g","i","n","t">>, <<"g","i","n","t">>)) >>,
      << Alias(<<"S","e","l","f">>, <<"F","o","o","S","e","l","f">>, Named(<<"F","o","o",".","S","e","l","f">>, <<"F","o","o","S","e","l","f">>)) >>,
      << Alias(<<"P","i","n","g">>, <<"F","o","o","P","i","n","g">>, Named(<<"P","o","n","g">>, <<"F","o","o","P","o","n","g">>)),
         Alias(<<"P","o","n","g">>, <<"F","o","o","P","o","n","g">>, Named(<<"F","o","o",".","P","i","n","g">>, <<"F","o","o","P","i","n","g">>)),
         Record(<<"B","a","r">>, <<"F","o","o","B","a","r">>, << >>) >>,
      << Alias(<<"F","a","r">>, <<"F","o","o","F","a","r">>, Named(<<"O","t","h","e","r",".","B","a","z">>, <<"B","a","z","O","b","j","e","c","t">>)),
         Alias(<<"L","o","s","t">>, <<"F","o","o","L","o","s","t">>, Named(<<"M","i","s","s","i","n","g",".","T","h","i","n","g">>, <<"M","i","s","s","i","n","g","T","h","i","n","g">>)),
         Alias(<<"G","o","n","e">>, <<"F","o","o","G","o","n","e">>, Named(<<"F","o","o",".","N","o","p","e">>, <<"F","o","o","N","o","p","e">>)),
         Alias(<<"O","d","d">>, <<"F","o","o","O","d","d">>, Untyped(<<"s","t","r","u","c","t"," ","_","x">>)) >> }

\* A call of lookup_giname about to be made
LookingUp(name) ==
    [fn |-> "lookup_giname", done |-> FALSE, name |-> name, node |-> 0, exc |-> "",
     warned |-> FALSE]


\* str.upper() of a character and of a string
UpperChar(c) ==
    IF c \in Range(LowerChars)
    THEN UpperChars[CHOOSE i \in DOMAIN LowerChars : LowerChars[i] = c]
    ELSE c
upper(s) == [ i \in DOMAIN s |-> UpperChar(s[i]) ]

\* ast.Namespace as the prefix matching reads it: the prefix lists in the
\* order the GIR gives them, and the names declared
ScanNamespace(name, identifier_prefixes, symbol_prefixes, members) ==
    [name |-> name, identifier_prefixes |-> identifier_prefixes,
     symbol_prefixes |-> symbol_prefixes, names |-> members]

\* Namespace._ucase_symbol_prefixes
ucase_symbol_prefixes(ns) ==
    [ i \in DOMAIN ns.symbol_prefixes |-> upper(ns.symbol_prefixes[i]) ]

\* A Transformer as parse_from_gir leaves it: namespaces is what
\* _iter_namespaces yields, the home namespace first, then the values of
\* _parsed_includes; a namespace is identified by its position
Scanner(namespaces) == [namespaces |-> namespaces, accept_unprefixed |-> FALSE]

\* Namespaces with the same prefixes, with prefixes that extend each other,
\* with prefixes that do and do not end in '_', and without prefixes
NsFoo == ScanNamespace(<<"F","o","o">>, << <<"F","o","o">> >>, << <<"f","o","o","_">> >>, { <<"B","a","r">> })
NsFooToo == ScanNamespace(<<"F","o","o","T","o","o">>, << <<"F","o","o">> >>, << <<"f","o","o","_">> >>, { <<"B","a","z">> })
NsF == ScanNamespace(<<"F">>, << <<"F">>, <<"F","o">> >>, << <<"f">>, <<"f","o">> >>, { })
NsFooBar == ScanNamespace(<<"F","o","o","B","a","r">>, << <<"F","o","o","B">> >>, << <<"f","o","o","_","b">> >>, { })
NsLoose == ScanNamespace(<<"L","o","o","s","e">>, << >>, << >>, { <<"t","h","i","n","g">>, <<"b","o","t","h">>, <<"f","o","o">> })
NsBare == ScanNamespace(<<"B","a","r","e">>, << >>, << >>, { <<"b","o","t","h">>, <<"T","h","i","n","g">> })
NsTypes == ScanNamespace(<<"T","y","p","e","s">>, << <<"T","y">> >>, << >>, { <<"f","o","o","_","b","a","r">>, <<"x","y","z">> })

Scanners ==
    { Scanner(<< NsFoo, NsFooToo >>),
      Scanner(<< NsFoo, NsFooBar, NsF >>),
      Scanner(<< NsF, NsFoo, NsFooBar >>),
      Scanner(<< NsFooBar, NsFoo, NsLoose >>),
      Scanner(<< NsFoo, NsLoose, NsBare >>),
      Scanner(<< NsLoose, NsBare, NsTypes >>),
      Scanner(<< NsBare, NsF, NsTypes >>) }

\* C identifiers and symbols given to the split functions
CNames ==
    { <<"f","o","o","_","b","a","r">>, <<"F","o","o","B","a","r">>, <<"f","o","o","b","a","r">>, <<"F","O","O","_","B","A","R">>, <<"F","O","O","B","A","R">>, <<"f","o","o","_">>, <<"F","o","o">>, <<"f","_","o","o">>,
      <<"f","o","_","b","a","r">>, <<"t","h","i","n","g">>, <<"T","h","i","n","g">>, <<"b","o","t","h">>, <<"x","y","z">>, <<"T","y","F","o","o">> }

\* The prefixes _split_c_string_for_namespace_matches reads of a namespace
prefixes_for(ns, name, is_identifier) ==
    IF is_identifier THEN ns.identifier_prefixes
    ELSE IF IsUpper(name[1]) THEN ucase_symbol_prefixes(ns)
    ELSE ns.symbol_prefixes

\* The prefix compared as the GIR gives it
compared_prefix_as_declared(prefix, is_identifier) == prefix

\* The prefix as the inner loop compares it
compared_prefix(prefix, is_identifier) ==
    IF ~is_identifier /\ ~endswith(prefix, <<"_">>) THEN prefix \o <<"_">> ELSE prefix

\* The inner loop over the prefixes of namespace i: the match appended, as a
\* list of at most one (ns, rest, len(prefix))
RECURSIVE prefix_match(_, _, _, _)
prefix_match(i, prefixes, name, is_identifier) ==
    IF prefixes = << >> THEN << >>
    ELSE With(compared_prefix(Head(prefixes), is_identifier), LAMBDA prefix :
         IF startswith(name, prefix)
         THEN << [ns |-> i, rest |-> DropFirst(name, Len(prefix)), len |-> Len(prefix)] >>
         ELSE prefix_match(i, Tail(prefixes), name, is_identifier))

\* The loop over _iter_namespaces: matches, in iteration order
RECURSIVE namespace_matches(_, _, _, _)
namespace_matches(tr, i, name, is_identifier) ==
    IF i > Len(tr.namespaces) THEN << >>
    ELSE prefix_match(i, prefixes_for(tr.namespaces[i], name, is_identifier),
                      name, is_identifier)
             \o namespace_matches(tr, i + 1, name, is_identifier)

\* unprefixed_namespaces after the loop, in iteration order
unprefixed_namespaces(tr, name, is_identifier) ==
    SelectSeq([ i \in DOMAIN tr.namespaces |-> i ],
              LAMBDA i : prefixes_for(tr.namespaces[i], name, is_identifier) = << >>)

\* _sort_matches that puts the home namespace first
sort_matches_home_first(val) == << IF val.ns = HomeId THEN 0 ELSE 1, val.len >>

\* Transformer._sort_matches(val): the sort key
sort_matches(val) == << IF val.ns = HomeId THEN 1 ELSE 0, val.len >>

\* key(a) <= key(b) for the keys of _sort_matches
KeyLeq(a, b) == a[1] < b[1] \/ (a[1] = b[1] /\ a[2] <= b[2])

\* list.sort(key=self._sort_matches): a stable sort
RECURSIVE sorted_matches(_)
sorted_matches(matches) ==
    IF matches = << >> THEN << >>
    ELSE With(sorted_matches(Tail(matches)), LAMBDA rest :
         With(Head(matches), LAMBDA m :
         \* m was first: it goes after the elements of a smaller key only
         SelectSeq(rest, LAMBDA r : ~KeyLeq(sort_matches(m), sort_matches(r)))
             \o << m >>
             \o SelectSeq(rest, LAMBDA r : KeyLeq(sort_matches(m), sort_matches(r)))))

\* Transformer._split_c_string_for_namespace_matches(name, is_identifier)
\* with no symbol filter command: [exc, message, matches]
split_c_string_for_namespace_matches(tr, name, is_identifier) ==
    With(sorted_matches(namespace_matches(tr, 1, name, is_identifier)), LAMBDA matches :
    With(SelectSeq(unprefixed_namespaces(tr, name, is_identifier),
                   LAMBDA i : name \in tr.namespaces[i].names), LAMBDA holders :
    IF matches # << >>
    THEN [exc |-> "", message |-> << >>,
          matches |-> [ k \in DOMAIN matches |-> << matches[k].ns, matches[k].rest >> ]]
    ELSE IF tr.accept_unprefixed
    THEN [exc |-> "", message |-> << >>, matches |-> << << HomeId, name >> >>]
    ELSE IF holders # << >>
    THEN [exc |-> "", message |-> << >>, matches |-> << << Head(holders), name >> >>]
    ELSE [exc |-> "ValueError",
          message |-> <<"U","n","k","n","o","w","n"," ","n","a","m","e","s","p","a","c","e"," ","f","o","r"," ">>
                          \o (IF is_identifier THEN <<"i","d","e","n","t","i","f","i","e","r">> ELSE <<"s","y","m","b","o","l">>)
                          \o <<" ","'">> \o name \o <<"'">>,
          matches |-> << >>]))

\* Transformer.split_ctype_namespaces(ident)
split_ctype_namespaces(tr, ident) == split_c_string_for_namespace_matches(tr, ident, TRUE)

\* Transformer.split_csymbol_namespaces(symbol)
split_csymbol_namespaces(tr, symbol) ==
    split_c_string_for_namespace_matches(tr, symbol, FALSE)

\* Transformer.split_csymbol(symbol): matches holds the one match returned
split_csymbol(tr, symbol) ==
    With(split_c_string_for_namespace_matches(tr, symbol, FALSE), LAMBDA r :
    IF r.exc # "" THEN r
    ELSE [r EXCEPT !.matches = << r.matches[Len(r.matches)] >>])

\* A call of a split function about to be made
Splitting(fn, tr, name) ==
    [fn |-> fn, done |-> FALSE, tr |-> tr, name |-> name, matches |-> << >>,
     exc |-> "", message |-> << >>]

\* Most dereferences of an alias that are followed
MaxDerefs == 5

\* What lookup_giname returns for a name: the declaration of the home
\* namespace, a declaration of an included namespace, NoNode for None
FoundNode(ns, name) ==
    IF ns = 0 THEN NoNode
    ELSE IF ns = HomeId
    THEN nodes[CHOOSE i \in DOMAIN nodes : nodes[i].name = name]
    ELSE [kind |-> "Included", namespace |-> ns, name |-> name]

\* A call of resolve_aliases about to be made: typenode is the local
\* variable of that name, steps the assignments made to it
Resolving(typenode) ==
    [fn |-> "resolve_aliases", done |-> FALSE, from |-> typenode, typenode |-> typenode,
     steps |-> 0, exc |-> ""]

\* One pass of the while loop of Transformer.resolve_aliases(typenode), the
\* return when its test fails or the loop breaks
resolve_aliases_step(c) ==
    IF c.typenode.kind # "Alias" THEN [c EXCEPT !.done = TRUE]
    ELSE IF c.typenode.type.target_giname # None
    THEN With(lookup_giname(c.typenode.type.target_giname), LAMBDA found :
         IF found.exc # "" THEN [c EXCEPT !.done = TRUE, !.exc = found.exc]
         ELSE [c EXCEPT !.steps = @ + 1,
                        !.typenode =
                            FoundNode(found.node,
                                      IF HasDot(c.typenode.type.target_giname)
                                      THEN SplitRest(c.typenode.type.target_giname)
                                      ELSE c.typenode.type.target_giname)])
    ELSE IF c.typenode.type.target_fundamental # None
    THEN [c EXCEPT !.steps = @ + 1, !.typenode = c.typenode.type]
    ELSE [c EXCEPT !.done = TRUE]

\* The calls that read the declarations of the home namespace
HomeCalls ==
    { LookingUp(name) : name \in LookupNames }

\* The calls that read the prefixes of the namespaces
PrefixCalls ==
    { Splitting(fn, tr, name) :
        fn \in { "split_ctype_namespaces", "split_csymbol_namespaces", "split_csymbol" },
        tr \in Scanners, name \in CNames }

InitScan ==
    /\ OutputIdle /\ AppendIdle
    /\ \/ /\ nodes \in ScanHomes
          /\ call \in HomeCalls \cup { Resolving(nodes[i]) : i \in DOMAIN nodes }
       \/ nodes = << >> /\ call \in PrefixCalls
    /\ phase = "idle"
    /\ walkPos = 1
    /\ crate = NoCrate
    /\ extern_crates = << >>
    /\ crate_libc = NoCrate
    /\ created = 0
    /\ error_count = 0
    /\ warning_count = 0
    /\ logged = << >>
    /\ status = [ i \in DOMAIN nodes |-> "unseen" ]
    /\ extracted = { }
    /\ map_started = FALSE
    /\ resolved_ns = { }
    /\ libc_hits = 0
    /\ last = NoCall
    /\ exit_code = << >>

outsideScan ==
    << nodes, phase, walkPos, crate, extern_crates, crate_libc, created, error_count,
       logged, status, extracted, map_started, resolved_ns, libc_hits, last, exit_code,
       outputVars, appendVars >>

\* lookup_giname(name); message.warn counts the warning
LookupGiname ==
    /\ call.fn = "lookup_giname" /\ ~call.done
    /\ With(lookup_giname(call.name), LAMBDA found :
       /\ call' = [call EXCEPT !.done = TRUE, !.node = found.node, !.exc = found.exc,
                               !.warned = found.warned]
       /\ warning_count' = warning_count + (IF found.warned THEN 1 ELSE 0))
    /\ UNCHANGED outsideScan

\* What a split function gave
Split(r) ==
    /\ call' = [call EXCEPT !.done = TRUE, !.matches = r.matches, !.exc = r.exc,
                            !.message = r.message]
    /\ UNCHANGED << warning_count, outsideScan >>

SplitCtypeNamespaces ==
    /\ call.fn = "split_ctype_namespaces" /\ ~call.done
    /\ Split(split_ctype_namespaces(call.tr, call.name))

SplitCsymbolNamespaces ==
    /\ call.fn = "split_csymbol_namespaces" /\ ~call.done
    /\ Split(split_csymbol_namespaces(call.tr, call.name))

SplitCsymbol ==
    /\ call.fn = "split_csymbol" /\ ~call.done
    /\ Split(split_csymbol(call.tr, call.name))

\* A pass of the loop of resolve_aliases
ResolveAliases ==
    /\ call.fn = "resolve_aliases" /\ ~call.done
    /\ call.steps < MaxDerefs
    /\ call' = resolve_aliases_step(call)
    /\ warning_count' =
           IF call.typenode.kind = "Alias" /\ call.typenode.type.target_giname # None
                 /\ lookup_giname(call.typenode.type.target_giname).warned
           THEN warning_count + 1 ELSE warning_count
    /\ UNCHANGED outsideScan

NextScan ==
    \/ LookupGiname
    \/ ResolveAliases
    \/ SplitCtypeNamespaces
    \/ SplitCsymbolNamespaces
    \/ SplitCsymbol

SpecScan == InitScan /\ [][NextScan]_vars

\* The call of lookup_giname has returned or raised
LookedUp == call.fn = "lookup_giname" /\ call.done

\* The namespace a lookup in namespace ns of the name gives: ns when it
\* declares the name, 0 (not found) otherwise
FoundIn(ns, name) == IF name \in NamesOf(ns) THEN ns ELSE 0

\* The included namespaces of a name
IncludedAs(prefix) == { i \in DOMAIN Namespaces : i # HomeId /\ Namespaces[i].name = prefix }

\* C21 as stated: lookup_giname splits the name on its first '.'; with no
\* '.' or with a prefix equal to the home namespace's name it looks the
\* remainder up in the home namespace; for every other prefix it looks the
\* remainder up in the included namespace of that name, and raises KeyError
\* when no namespace of that name was parsed; a name absent from the
\* namespace found gives None, not an error.
C21_Original ==
    LookedUp =>
        With(IF HasDot(call.name) THEN SplitHead(call.name) ELSE None, LAMBDA prefix :
        With(IF HasDot(call.name) THEN SplitRest(call.name) ELSE call.name, LAMBDA rest :
        IF prefix \in { None, Namespaces[HomeId].name }
        THEN call.exc = "" /\ call.node = FoundIn(HomeId, rest)
        ELSE IF IncludedAs(prefix) = { }
        THEN call.exc = "KeyError"
        ELSE call.exc = "" /\ \E ns \in IncludedAs(prefix) : call.node = FoundIn(ns, rest)))

\* C21: lookup_giname splits the name on its first '.'; with no '.' or with
\* a prefix equal to the home namespace's name it looks the remainder up in
\* the home namespace; a prefix that is an identifier prefix of the home
\* namespace and not the name of an included namespace is looked up in the
\* home namespace as well, with a warning; for every other prefix it looks
\* the remainder up in the included namespace of that name, and raises
\* KeyError when no namespace of that name was parsed; a name absent from the
\* namespace found gives None, not an error.
C21_Lookup ==
    LookedUp =>
        With(IF HasDot(call.name) THEN SplitHead(call.name) ELSE None, LAMBDA prefix :
        With(IF HasDot(call.name) THEN SplitRest(call.name) ELSE call.name, LAMBDA rest :
        IF prefix \in { None, Namespaces[HomeId].name }
        THEN call.exc = "" /\ call.node = FoundIn(HomeId, rest) /\ warning_count = 0
        ELSE IF IncludedAs(prefix) = { } /\ prefix \in Namespaces[HomeId].identifier_prefixes
        THEN call.exc = "" /\ call.node = FoundIn(HomeId, rest) /\ warning_count = 1
        ELSE IF IncludedAs(prefix) = { }
        THEN call.exc = "KeyError" /\ warning_count = 0
        ELSE /\ call.exc = "" /\ warning_count = 0
             /\ \E ns \in IncludedAs(prefix) : call.node = FoundIn(ns, rest)))

\* 'F.Bar' has been looked up in a home namespace Foo that declares Bar and
\* has the identifier prefix F: Bar of the home namespace was found
C21_Witness ==
    /\ LookedUp
    /\ call.name = <<"F",".","B","a","r">>
    /\ call.node = HomeId
    /\ warning_count = 1

\* A call of a split function has returned or raised
SplitDone ==
    call.fn \in { "split_ctype_namespaces", "split_csymbol_namespaces", "split_csymbol" }
        /\ call.done

\* The prefixes namespace i of the call's Transformer declares for the name:
\* identifier prefixes for an identifier; for a symbol the symbol prefixes,
\* in upper case when the symbol begins with a capital
DeclaredPrefixes(i) ==
    With(call.tr.namespaces[i], LAMBDA ns :
    IF call.fn = "split_ctype_namespaces" THEN ns.identifier_prefixes
    ELSE IF IsUpper(call.name[1])
    THEN [ k \in DOMAIN ns.symbol_prefixes |-> upper(ns.symbol_prefixes[k]) ]
    ELSE ns.symbol_prefixes)

\* The same with '_' after each symbol prefix that does not end in one
MatchedPrefixes(i) ==
    With(DeclaredPrefixes(i), LAMBDA declared :
    [ k \in DOMAIN declared |->
          IF call.fn # "split_ctype_namespaces" /\ declared[k][Len(declared[k])] # "_"
          THEN declared[k] \o <<"_">> ELSE declared[k] ])

\* The candidates the returned list holds: every namespace listed is in ns,
\* every namespace of ns is listed once (one of them, for split_csymbol, the
\* home namespace if it is in ns), the home namespace last
Candidates(ns) ==
    /\ call.exc = ""
    /\ \A k \in DOMAIN call.matches : call.matches[k][1] \in ns
    /\ \A k, l \in DOMAIN call.matches : call.matches[k][1] = call.matches[l][1] => k = l
    /\ IF call.fn = "split_csymbol"
       THEN Len(call.matches) = 1 /\ (HomeId \in ns => call.matches[1][1] = HomeId)
       ELSE /\ \A i \in ns : \E k \in DOMAIN call.matches : call.matches[k][1] = i
            /\ HomeId \in ns => call.matches[Len(call.matches)][1] = HomeId

\* C22 as stated: the split functions return one candidate (namespace,
\* suffix) for every loaded namespace that declares a prefix which is a
\* leading substring of the name, the suffix being the name without that
\* prefix, the home namespace's candidate last; split_csymbol returns the
\* last, so the home namespace wins whenever it matches.
C22_Original ==
    SplitDone =>
        With({ i \in DOMAIN call.tr.namespaces :
                   \E k \in DOMAIN DeclaredPrefixes(i) :
                       startswith(call.name, DeclaredPrefixes(i)[k]) }, LAMBDA ns :
        ns # { } =>
            /\ Candidates(ns)
            /\ \A m \in DOMAIN call.matches :
                   \E k \in DOMAIN DeclaredPrefixes(call.matches[m][1]) :
                       call.name = DeclaredPrefixes(call.matches[m][1])[k]
                                       \o call.matches[m][2])

\* C22: the split functions return one candidate (namespace, suffix) for
\* every loaded namespace that declares a prefix which is a leading substring
\* of the name, a symbol prefix being taken with a '_' after it unless it
\* ends in one; the suffix is the name without the first such prefix of the
\* namespace's list, and the home namespace's candidate is last;
\* split_csymbol returns the last, so the home namespace wins whenever it
\* matches.
C22_Candidates ==
    SplitDone =>
        With({ i \in DOMAIN call.tr.namespaces :
                   \E k \in DOMAIN MatchedPrefixes(i) :
                       startswith(call.name, MatchedPrefixes(i)[k]) }, LAMBDA ns :
        ns # { } =>
            /\ Candidates(ns)
            /\ \A m \in DOMAIN call.matches :
                   With(MatchedPrefixes(call.matches[m][1]), LAMBDA prefixes :
                   \E k \in DOMAIN prefixes :
                       /\ call.name = prefixes[k] \o call.matches[m][2]
                       /\ \A j \in 1 .. (k - 1) : ~startswith(call.name, prefixes[j])))

\* split_csymbol_namespaces has split 'fo_bar' with home namespace F, whose
\* symbol prefixes are 'f' and 'fo': 'f_' does not match, 'fo_' does
C22_Witness ==
    /\ SplitDone
    /\ call.fn = "split_csymbol_namespaces"
    /\ call.name = <<"f","o","_","b","a","r">>
    /\ call.tr = Scanner(<< NsF, NsFoo, NsFooBar >>)
    /\ call.matches = << << HomeId, <<"b","a","r">> >> >>

\* Namespace A (Foo, the home namespace) and namespace B (FooToo, included)
\* both declare the symbol prefix 'foo_', and 'foo_bar' has been split
TieBroken ==
    /\ call.fn \in { "split_csymbol_namespaces", "split_csymbol" }
    /\ call.done
    /\ call.tr = Scanner(<< NsFoo, NsFooToo >>)
    /\ call.name = <<"f","o","o","_","b","a","r">>

\* The included namespace of the tie
TiedInclude == CHOOSE i \in 1 .. 2 : i # HomeId

\* C23 as stated: with A the home namespace and B an included one, both with
\* prefix 'foo_', 'foo_bar' has both A and B as candidates, and the single
\* best match is B.
C23_Original ==
    TieBroken =>
        /\ call.fn = "split_csymbol_namespaces" =>
               { call.matches[k] : k \in DOMAIN call.matches }
                   = { << HomeId, <<"b","a","r">> >>, << TiedInclude, <<"b","a","r">> >> }
        /\ call.fn = "split_csymbol" => call.matches = << << TiedInclude, <<"b","a","r">> >> >>

\* C23: with A the home namespace and B an included one, both with prefix
\* 'foo_', 'foo_bar' has both A and B as candidates, B first and A last, and
\* the single best match is A, the home namespace.
C23_TieBreak ==
    TieBroken =>
        /\ call.exc = ""
        /\ call.fn = "split_csymbol_namespaces" =>
               call.matches = << << TiedInclude, <<"b","a","r">> >>, << HomeId, <<"b","a","r">> >> >>
        /\ call.fn = "split_csymbol" => call.matches = << << HomeId, <<"b","a","r">> >> >>

\* split_csymbol has returned the home namespace for 'foo_bar'
C23_Witness ==
    /\ TieBroken
    /\ call.fn = "split_csymbol"
    /\ call.matches = << << HomeId, <<"b","a","r">> >> >>

\* No prefix of any namespace matches the name of the call
NoPrefixMatches ==
    \A i \in DOMAIN call.tr.namespaces :
        \A k \in DOMAIN MatchedPrefixes(i) : ~startswith(call.name, MatchedPrefixes(i)[k])

\* The namespaces without prefixes that declare the name of the call
BareHolders ==
    { i \in DOMAIN call.tr.namespaces :
          DeclaredPrefixes(i) = << >> /\ call.name \in call.tr.namespaces[i].names }

\* The message of the unknown-namespace error for the call
UnknownNamespace ==
    <<"U","n","k","n","o","w","n"," ","n","a","m","e","s","p","a","c","e"," ","f","o","r"," ">>
        \o (IF call.fn = "split_ctype_namespaces" THEN <<"i","d","e","n","t","i","f","i","e","r">> ELSE <<"s","y","m","b","o","l">>)
        \o <<" ","'">> \o call.name \o <<"'">>

\* C24: when no namespace prefix matches the name, the split functions
\* return the name unmodified, with its namespace, only if it is a member of
\* exactly one namespace without prefixes; when it is a member of none or of
\* more than one they raise ValueError with a message that names the name
\* and says whether it was taken as an identifier or as a symbol.
C24_Unprefixed ==
    (SplitDone /\ NoPrefixMatches) =>
        IF Cardinality(BareHolders) = 1
        THEN call.exc = "" /\ \E i \in BareHolders : call.matches = << << i, call.name >> >>
        ELSE call.exc = "ValueError" /\ call.message = UnknownNamespace

\* The Alias declarations of the home namespace
Aliases == { i \in DOMAIN nodes : nodes[i].kind = "Alias" }

\* C25: resolve_aliases ends on every declaration after at most as many
\* dereferences as the home namespace has Alias declarations: on the chain
\* of three aliases that ends in a fundamental type one call returns that
\* type, and on a cyclic chain, an alias of itself included, the call ends
\* with an error.
C25_AliasChain ==
    call.fn = "resolve_aliases" =>
        /\ call.steps <= Cardinality(Aliases)
        /\ (call.done /\ call.from.name = <<"A","1">>) =>
               call.typenode = Fundamental(<<"g","i","n","t">>, <<"g","i","n","t">>)
        /\ (call.done /\ call.from.name \in { <<"S","e","l","f">>, <<"P","i","n","g">>, <<"P","o","n","g">> }) => call.exc # ""

-----------------------------------------------------------------------------
(* grust/giscanner/transformer.py: Transformer.parse_from_gir and the
   recursion of _parse_include.  call holds the Transformer's tables and the
   active calls of _parse_include, innermost last. *)

\* The depth of calls at which the interpreter raises its recursion error
MaxDepth == 5

\* A GIR file of a namespace: the includes of its namespace element, in
\* order, and whether a search directory holds the file
Gir(includes, exists) == [includes |-> includes, exists |-> exists]

\* Include graphs, by namespace name: a shared include; an include that no
\* search directory holds; a chain; includes that lead back to the home
\* namespace, to another namespace, to the including namespace itself
IncludeGraphs ==
    { [Foo |-> Gir(<< "GLib", "Other" >>, TRUE), Other |-> Gir(<< "GLib" >>, TRUE),
       GLib |-> Gir(<< >>, TRUE), Gone |-> Gir(<< >>, FALSE)],
      [Foo |-> Gir(<< "Other", "GLib" >>, TRUE), Other |-> Gir(<< "GLib" >>, TRUE),
       GLib |-> Gir(<< >>, TRUE), Gone |-> Gir(<< >>, FALSE)],
      [Foo |-> Gir(<< "Other" >>, TRUE), Other |-> Gir(<< "GLib", "Gone" >>, TRUE),
       GLib |-> Gir(<< >>, TRUE), Gone |-> Gir(<< >>, FALSE)],
      [Foo |-> Gir(<< "Other" >>, TRUE), Other |-> Gir(<< "GLib" >>, TRUE),
       GLib |-> Gir(<< "Gone" >>, TRUE), Gone |-> Gir(<< >>, TRUE)],
      [Foo |-> Gir(<< "GLib", "Other" >>, TRUE), Other |-> Gir(<< "Foo" >>, TRUE),
       GLib |-> Gir(<< >>, TRUE), Gone |-> Gir(<< >>, FALSE)],
      [Foo |-> Gir(<< "Other" >>, TRUE), Other |-> Gir(<< "GLib" >>, TRUE),
       GLib |-> Gir(<< "Other" >>, TRUE), Gone |-> Gir(<< >>, FALSE)],
      [Foo |-> Gir(<< "Foo" >>, TRUE), Other |-> Gir(<< >>, TRUE),
       GLib |-> Gir(<< >>, TRUE), Gone |-> Gir(<< >>, FALSE)],
      [Foo |-> Gir(<< "Other", "GLib", "Gone" >>, TRUE), Other |-> Gir(<< >>, TRUE),
       GLib |-> Gir(<< >>, TRUE), Gone |-> Gir(<< "GLib" >>, FALSE)],
      [Foo |-> Gir(<< >>, TRUE), Other |-> Gir(<< >>, TRUE),
       GLib |-> Gir(<< >>, TRUE), Gone |-> Gir(<< >>, FALSE)] }

\* The namespace of the GIR file parse_from_gir is given
HomeGir == "Foo"

\* A call of _parse_include: the namespace of its parser and the position of
\* its loop in that namespace's includes
Frame(name) == [name |-> name, next |-> 1]

\* parse_from_gir about to be called: cached is what the CacheStore holds,
\* obtained the namespaces whose declaration graph has been obtained, by
\* parser.parse or from the cache, in order
Loading(graph, cached) ==
    [fn |-> "parse_from_gir", at |-> "start", graph |-> graph, cached |-> cached,
     obtained |-> << >>, stack |-> << >>, parsed_includes |-> << >>, namespace |-> << >>]

\* self._parsed_includes[namespace.name] = namespace: a dict keeps the
\* position of a key it holds
parsed_includes_set(parsed, name) ==
    IF name \in Range(parsed) THEN parsed ELSE Append(parsed, name)

\* _parse_include entered for the file of a namespace: the parser is loaded
\* from the cache or parses and is stored
parse_include_enter(c, name) ==
    [c EXCEPT !.obtained = Append(@, name),
              !.cached = @ \cup { name },
              !.stack = Append(@, Frame(name))]

\* The innermost _parse_include up to its next call or its return: a pass of
\* the loop over the includes (_find_include, then _parse_include), or the
\* end of the loop, which registers the namespace; the return of the
\* outermost gives parse_from_gir its namespace, which it deletes from
\* _parsed_includes
parse_include_step(c) ==
    With(c.stack[Len(c.stack)], LAMBDA frame :
    With(c.graph[frame.name].includes, LAMBDA includes :
    IF frame.next > Len(includes)
    THEN With([c EXCEPT !.parsed_includes = parsed_includes_set(@, frame.name),
                        !.stack = SubSeq(@, 1, Len(@) - 1)], LAMBDA d :
         IF d.stack # << >> THEN d
         ELSE [d EXCEPT !.at = "done", !.namespace = << frame.name >>,
                        !.parsed_includes = SelectSeq(@, LAMBDA n : n # frame.name)])
    ELSE With([c EXCEPT !.stack[Len(c.stack)].next = @ + 1], LAMBDA d :
         IF includes[frame.next] \in Range(c.parsed_includes) THEN d
         ELSE IF ~c.graph[includes[frame.next]].exists THEN [c EXCEPT !.at = "exit"]
         ELSE IF Len(c.stack) >= MaxDepth THEN [c EXCEPT !.at = "RecursionError"]
         ELSE parse_include_enter(d, includes[frame.next]))))

outsideLoad ==
    << mapperVars, error_count, warning_count, appendVars, pc, sys_mode, opts_output,
       python_major, target_file, tempfile, stdout, renames, raised, cause >>

InitLoad ==
    /\ WriterIdle /\ OutputIdle /\ AppendIdle
    /\ error_count = 0
    /\ warning_count = 0
    /\ exit_code = << >>
    /\ call \in { Loading(graph, IF warm THEN DOMAIN graph ELSE { }) :
                      graph \in IncludeGraphs, warm \in BOOLEAN }

\* parse_from_gir(filename) up to its call of _parse_include
ParseFromGir ==
    /\ call.fn = "parse_from_gir" /\ call.at = "start"
    /\ call' = parse_include_enter([call EXCEPT !.at = "running"], HomeGir)
    /\ UNCHANGED << stderr, exit_code, outsideLoad >>

\* A step of the innermost _parse_include; sys.exit(1) of _find_include and
\* the interpreter's recursion error end the process
ParseInclude ==
    /\ call.fn = "parse_from_gir" /\ call.at = "running"
    /\ call' = parse_include_step(call)
    /\ stderr' = IF call'.at = "exit" THEN Append(stderr, <<"C","o","u","l","d","n","'","t"," ","f","i","n","d"," ","i","n","c","l","u","d","e">>)
                 ELSE IF call'.at = "RecursionError" THEN Append(stderr, <<"T","r","a","c","e","b","a","c","k">>)
                 ELSE stderr
    /\ exit_code' = IF call'.at \in { "exit", "RecursionError" } THEN << 1 >> ELSE exit_code
    /\ UNCHANGED outsideLoad

NextLoad ==
    \/ ParseFromGir
    \/ ParseInclude

SpecLoad == InitLoad /\ [][NextLoad]_vars

\* How often the declaration graph of a namespace has been obtained
Obtained(name) == Cardinality({ k \in DOMAIN call.obtained : call.obtained[k] = name })

\* The namespaces the includes lead to from a namespace
RECURSIVE Reachable(_, _)
Reachable(seen, k) ==
    IF k = 0 THEN seen
    ELSE Reachable(seen \cup UNION { Range(call.graph[n].includes) : n \in seen }, k - 1)
IncludedFrom(name) ==
    Reachable(Range(call.graph[name].includes), Cardinality(DOMAIN call.graph))

\* C26: parse_from_gir ends for every finite include graph: the declaration
\* graph of each namespace is obtained at most once, a namespace that is
\* loaded being served from _parsed_includes; when it returns, every
\* namespace reachable through includes is registered; an include that no
\* search directory holds is fatal; and an include cycle ends the run
\* without unbounded recursion.
C26_Load ==
    call.fn = "parse_from_gir" =>
        /\ \A name \in DOMAIN call.graph : Obtained(name) <= 1
        /\ call.at = "done" =>
               /\ Range(call.parsed_includes) = IncludedFrom(HomeGir) \ { HomeGir }
               /\ call.namespace = << HomeGir >>
        /\ call.at = "exit" => exit_code # << >> /\ exit_code # << 0 >>
        /\ call.at # "RecursionError"
=============================================================================
